---- MODULE Spec2Model ----
(***************************************************************************)
(* Local-search core of the constraint solver                              *)
(* (trunk/src/constraint_solver/local_search.cc): neighborhood operators   *)
(* with their delta / deltadelta emission, and the objective filters.      *)
(*                                                                         *)
(* Arrays of the C++ code are functions over 0..size-1 so that indices     *)
(* keep the values they have in the source; std::vector members that grow  *)
(* (changes_, path_starts_, assignment containers) are sequences.          *)
(***************************************************************************)
EXTENDS Integers, Sequences, FiniteSets, TLC

\* ------------------------------------------------------------------------
\* Bounds of the model
\* ------------------------------------------------------------------------

\* Largest number of next variables (nodes that have a successor) of a path
\* operator instance, the instance of the 2-opt scenario apart.
MaxNexts == 3

\* Largest chain length of a Relocate operator instance.
MaxChainLength == 2

\* Largest number of variables of a value / LNS operator instance.
MaxVars == 3

\* Largest number of variables an LNS operator frees per neighbor.
MaxFragment == 2

\* ------------------------------------------------------------------------
\* Generic helpers
\* ------------------------------------------------------------------------

Range(s) == {s[k] : k \in DOMAIN s}

AllFalse(size) == [i \in 0..(size - 1) |-> FALSE]

AllTrue(size) == [i \in 0..(size - 1) |-> TRUE]

Zeros(size) == [i \in 0..(size - 1) |-> 0]

\* Route identifier written for nodes that are on no route.
kNoPath == 0 - 1

\* ------------------------------------------------------------------------
\* IntVarLocalSearchOperator: staging of changes
\* ------------------------------------------------------------------------

Size(o) == o.size

Value(o, index) == o.values[index]

OldValue(o, index) == o.old_values[index]

\* MarkChange that forgets to record the change for the delta of delta.
MarkChangeWithoutDeltaBit(o, index) ==
  [o EXCEPT !.has_changed[index] = TRUE,
            !.changes = IF o.has_changed[index] THEN @ ELSE Append(@, index)]

\* MarkChange that records the index in the change list at every call.
MarkChangeAppendingAlways(o, index) ==
  [o EXCEPT !.has_delta_changed[index] = TRUE,
            !.has_changed[index] = TRUE,
            !.changes = Append(@, index)]

MarkChange(o, index) ==
  [o EXCEPT !.has_delta_changed[index] = TRUE,
            !.has_changed[index] = TRUE,
            !.changes = IF o.has_changed[index] THEN @ ELSE Append(@, index)]

SetValue(o, index, value) == MarkChange([o EXCEPT !.values[index] = value], index)

Activate(o, index) == MarkChange([o EXCEPT !.activated[index] = TRUE], index)

Deactivate(o, index) == MarkChange([o EXCEPT !.activated[index] = FALSE], index)

IsIncremental(o) == o.kind = "TwoOpt"

\* The operators derived from BaseInactiveNodeToPathOperator.
IsInactiveNodeKind(kind) == kind \in {"MakeActive", "SwapActive", "ExtendedSwapActive"}

IsPathKind(kind) ==
  kind \in {"TwoOpt", "Exchange", "Relocate", "Cross", "MakeInactive", "TSPLns",
            "LinKernighan"}
  \/ IsInactiveNodeKind(kind)

\* PathOperator::SkipUnchanged for path operators, the base class default
\* (false) for the others.
SkipUnchanged(o, index) ==
  IF ~IsPathKind(o.kind) THEN FALSE
  ELSE IF o.ignore_path_vars THEN TRUE
  ELSE IF index < o.number_of_nexts
       THEN Value(o, index + o.number_of_nexts) = OldValue(o, index + o.number_of_nexts)
       ELSE Value(o, index - o.number_of_nexts) = OldValue(o, index - o.number_of_nexts)

\* RevertChanges that does not record that the reference was restored.
RevertChangesWithoutCleared(o, incremental) ==
  LET o1 == [o EXCEPT !.cleared = FALSE,
                      !.has_delta_changed = AllFalse(o.size)]
      touched == Range(o.changes)
  IN IF incremental /\ o.kind = "TwoOpt"
     THEN o1
     ELSE [o1 EXCEPT
             !.values = [i \in DOMAIN @ |->
                           IF i \in touched THEN o.old_values[i] ELSE @[i]],
             !.activated = [i \in DOMAIN @ |->
                           IF i \in touched THEN o.was_activated[i] ELSE @[i]],
             !.has_changed = [i \in DOMAIN @ |->
                           IF i \in touched THEN FALSE ELSE @[i]],
             !.changes = <<>>]

\* RevertChanges that empties the change list without resetting has_changed_.
RevertChangesKeepingMarks(o, incremental) ==
  LET o1 == [o EXCEPT !.cleared = FALSE,
                      !.has_delta_changed = AllFalse(o.size)]
      touched == Range(o.changes)
  IN IF incremental /\ o.kind = "TwoOpt"
     THEN o1
     ELSE [o1 EXCEPT
             !.cleared = TRUE,
             !.values = [i \in DOMAIN @ |->
                           IF i \in touched THEN o.old_values[i] ELSE @[i]],
             !.activated = [i \in DOMAIN @ |->
                           IF i \in touched THEN o.was_activated[i] ELSE @[i]],
             !.changes = <<>>]

\* RevertChanges that restores the values but not the activations.
RevertChangesKeepingActivations(o, incremental) ==
  LET o1 == [o EXCEPT !.cleared = FALSE,
                      !.has_delta_changed = AllFalse(o.size)]
      touched == Range(o.changes)
  IN IF incremental /\ o.kind = "TwoOpt"
     THEN o1
     ELSE [o1 EXCEPT
             !.cleared = TRUE,
             !.values = [i \in DOMAIN @ |->
                           IF i \in touched THEN o.old_values[i] ELSE @[i]],
             !.has_changed = [i \in DOMAIN @ |->
                           IF i \in touched THEN FALSE ELSE @[i]],
             !.changes = <<>>]

\* RevertChanges that restores the reference whatever its argument.
RevertChangesIgnoringIncremental(o, incremental) ==
  LET o1 == [o EXCEPT !.cleared = FALSE,
                      !.has_delta_changed = AllFalse(o.size)]
      touched == Range(o.changes)
  IN [o1 EXCEPT
        !.cleared = TRUE,
        !.values = [i \in DOMAIN @ |->
                      IF i \in touched THEN o.old_values[i] ELSE @[i]],
        !.activated = [i \in DOMAIN @ |->
                      IF i \in touched THEN o.was_activated[i] ELSE @[i]],
        !.has_changed = [i \in DOMAIN @ |->
                      IF i \in touched THEN FALSE ELSE @[i]],
        !.changes = <<>>]

RevertChanges(o, incremental) ==
  LET o1 == [o EXCEPT !.cleared = FALSE,
                      !.has_delta_changed = AllFalse(o.size)]
      touched == Range(o.changes)
  IN IF incremental /\ IsIncremental(o)
     THEN o1
     ELSE [o1 EXCEPT
             !.cleared = TRUE,
             !.values = [i \in DOMAIN @ |->
                           IF i \in touched THEN o.old_values[i] ELSE @[i]],
             !.activated = [i \in DOMAIN @ |->
                           IF i \in touched THEN o.was_activated[i] ELSE @[i]],
             !.has_changed = [i \in DOMAIN @ |->
                           IF i \in touched THEN FALSE ELSE @[i]],
             !.changes = <<>>]

\* One element of an assignment container, as FastAdd(var).Deactivate() and
\* FastAdd(var).SetValue(value) leave it.
DeactivatedElement(index) == [var |-> index, activated |-> FALSE, value |-> 0]

ValueElement(index, value) == [var |-> index, activated |-> TRUE, value |-> value]

\* ApplyChanges that emits into delta only what it emits into deltadelta
\* when the operator is incremental and the reference was not restored.
RECURSIVE ApplyChangesFromDeltaBitOnly(_, _, _)
ApplyChangesFromDeltaBitOnly(o, k, to_deltadelta) ==
  IF k > Len(o.changes) THEN <<>>
  ELSE LET index == o.changes[k]
           value == o.values[index]
           mirrored == ~o.cleared /\ o.has_delta_changed[index] /\ o.kind = "TwoOpt"
           wanted == IF o.kind = "TwoOpt" /\ ~o.cleared THEN mirrored
                     ELSE (~to_deltadelta) \/ mirrored
           rest == ApplyChangesFromDeltaBitOnly(o, k + 1, to_deltadelta)
       IN IF ~o.activated[index]
          THEN (IF wanted THEN <<[var |-> index, activated |-> FALSE, value |-> 0]>>
                ELSE <<>>) \o rest
          ELSE IF value # o.old_values[index]
               THEN (IF wanted THEN <<[var |-> index, activated |-> TRUE, value |-> value]>>
                     ELSE <<>>) \o rest
               ELSE rest

\* Elements appended to delta (to_deltadelta = FALSE) or deltadelta
\* (to_deltadelta = TRUE) by the loop of ApplyChanges over changes_[k..].
RECURSIVE ApplyChangesFrom(_, _, _)
ApplyChangesFrom(o, k, to_deltadelta) ==
  IF k > Len(o.changes) THEN <<>>
  ELSE LET index == o.changes[k]
           value == Value(o, index)
           mirrored == ~o.cleared /\ o.has_delta_changed[index] /\ IsIncremental(o)
           wanted == (~to_deltadelta) \/ mirrored
           rest == ApplyChangesFrom(o, k + 1, to_deltadelta)
       IN IF ~o.activated[index]
          THEN (IF wanted THEN <<DeactivatedElement(index)>> ELSE <<>>) \o rest
          ELSE IF value # OldValue(o, index) \/ ~SkipUnchanged(o, index)
               THEN (IF wanted THEN <<ValueElement(index, value)>> ELSE <<>>) \o rest
               ELSE rest

ApplyChanges(o) ==
  [delta |-> ApplyChangesFrom(o, 1, FALSE),
   deltadelta |-> ApplyChangesFrom(o, 1, TRUE)]

\* ------------------------------------------------------------------------
\* PathOperator: accessors (next variables 0..number_of_nexts-1, optional
\* path variables number_of_nexts..2*number_of_nexts-1)
\* ------------------------------------------------------------------------

IsPathEnd(o, i) == i >= o.number_of_nexts

Next(o, node_index) == Value(o, node_index)

OldNext(o, node_index) == OldValue(o, node_index)

Path(o, node_index) ==
  IF o.ignore_path_vars THEN 0 ELSE Value(o, node_index + o.number_of_nexts)

BaseNode(o, i) == o.base_nodes[i]

StartNode(o, i) == o.path_starts[o.base_paths[i] + 1]

IsInactive(o, i) == ~IsPathEnd(o, i) /\ o.inactives[i]

SetNext(o, from, to, path) ==
  LET o1 == SetValue(o, from, to)
  IN IF o.ignore_path_vars THEN o1
     ELSE SetValue(o1, from + o.number_of_nexts, path)

\* The number of base nodes each constructor passes to PathOperator.
NumberOfBaseNodes(kind) ==
  IF kind \in {"MakeActive", "MakeInactive", "SwapActive", "TSPLns", "LinKernighan"}
  THEN 1 ELSE 2

OnSamePathAsPreviousBase(o, base_index) ==
  CASE o.kind = "TwoOpt" -> TRUE
    [] o.kind = "Relocate" -> o.single_path
    [] OTHER -> FALSE

GetBaseNodeRestartPosition(o, base_index) == StartNode(o, base_index)

InitPosition(o) == FALSE

RestartAtPathStartOnSynchronize(o) == FALSE

\* ------------------------------------------------------------------------
\* PathOperator: edit primitives
\* ------------------------------------------------------------------------

\* The while loop of CheckChainValidity, entered with current and chain_size.
RECURSIVE CheckChainLoop(_, _, _, _, _)
CheckChainLoop(o, current, chain_end, exclude, chain_size) ==
  IF current = chain_end THEN TRUE
  ELSE IF chain_size > o.number_of_nexts THEN FALSE
  ELSE IF IsPathEnd(o, current) THEN FALSE
  ELSE LET nxt == Next(o, current)
       IN IF nxt = exclude THEN FALSE
          ELSE CheckChainLoop(o, nxt, chain_end, exclude, chain_size + 1)

CheckChainValidity(o, before_chain, chain_end, exclude) ==
  IF before_chain = chain_end \/ before_chain = exclude THEN FALSE
  ELSE CheckChainLoop(o, before_chain, chain_end, exclude, 0)

\* The while loop of MoveChain that rewrites the path values of the moved
\* nodes (path variables present).
RECURSIVE MoveChainLoop(_, _, _, _, _)
MoveChainLoop(o, current, next, chain_end, destination_path) ==
  IF current = chain_end THEN o
  ELSE LET o1 == SetNext(o, current, next, destination_path)
       IN MoveChainLoop(o1, next, Next(o1, next), chain_end, destination_path)

\* MoveChain without the final link from before_chain to after_chain.
MoveChainWithoutClosingGap(o, before_chain, chain_end, destination) ==
  IF CheckChainValidity(o, before_chain, chain_end, destination)
     /\ ~IsPathEnd(o, chain_end)
     /\ ~IsPathEnd(o, destination)
  THEN LET destination_path == Path(o, destination)
           o1 == SetNext(o, chain_end, Next(o, destination), destination_path)
           o2 == IF ~o.ignore_path_vars
                 THEN MoveChainLoop(o1, destination, Next(o1, before_chain),
                                    chain_end, destination_path)
                 ELSE SetNext(o1, destination, Next(o1, before_chain),
                              destination_path)
       IN [ok |-> TRUE, o |-> o2]
  ELSE [ok |-> FALSE, o |-> o]

MoveChain(o, before_chain, chain_end, destination) ==
  IF CheckChainValidity(o, before_chain, chain_end, destination)
     /\ ~IsPathEnd(o, chain_end)
     /\ ~IsPathEnd(o, destination)
  THEN LET destination_path == Path(o, destination)
           after_chain == Next(o, chain_end)
           o1 == SetNext(o, chain_end, Next(o, destination), destination_path)
           o2 == IF ~o.ignore_path_vars
                 THEN MoveChainLoop(o1, destination, Next(o1, before_chain),
                                    chain_end, destination_path)
                 ELSE SetNext(o1, destination, Next(o1, before_chain),
                              destination_path)
           o3 == SetNext(o2, before_chain, after_chain, Path(o2, before_chain))
       IN [ok |-> TRUE, o |-> o3]
  ELSE [ok |-> FALSE, o |-> o]

\* The while loop of ReverseChain; yields the operator and the last node
\* of the reversed chain.
RECURSIVE ReverseChainLoop(_, _, _, _, _)
ReverseChainLoop(o, current, current_next, after_chain, path) ==
  IF current_next = after_chain THEN [o |-> o, current |-> current]
  ELSE LET next == Next(o, current_next)
           o1 == SetNext(o, current_next, current, path)
       IN ReverseChainLoop(o1, current_next, next, after_chain, path)

ReverseChain(o, before_chain, after_chain) ==
  IF CheckChainValidity(o, before_chain, after_chain, 0 - 1)
  THEN LET path == Path(o, before_chain)
           current == Next(o, before_chain)
       IN IF current = after_chain
          THEN [ok |-> FALSE, o |-> o, chain_last |-> 0 - 1]
          ELSE LET current_next == Next(o, current)
                   o1 == SetNext(o, current, after_chain, path)
                   lp == ReverseChainLoop(o1, current, current_next, after_chain, path)
                   o2 == SetNext(lp.o, before_chain, lp.current, path)
               IN [ok |-> TRUE, o |-> o2, chain_last |-> lp.current]
  ELSE [ok |-> FALSE, o |-> o, chain_last |-> 0 - 1]

\* MakeActive without the link from node to the successor of destination.
MakeActiveWithoutLinkingNode(o, node, destination) ==
  IF ~IsPathEnd(o, destination)
  THEN [ok |-> TRUE, o |-> SetNext(o, destination, node, Path(o, destination))]
  ELSE [ok |-> FALSE, o |-> o]

MakeActive(o, node, destination) ==
  IF ~IsPathEnd(o, destination)
  THEN LET destination_path == Path(o, destination)
           o1 == SetNext(o, node, Next(o, destination), destination_path)
           o2 == SetNext(o1, destination, node, destination_path)
       IN [ok |-> TRUE, o |-> o2]
  ELSE [ok |-> FALSE, o |-> o]

\* The while loop of MakeChainInactive: turns current and the nodes after
\* it into self-loops until after_chain is met.
RECURSIVE MakeChainInactiveLoop(_, _, _)
MakeChainInactiveLoop(o, current, after_chain) ==
  IF current = after_chain THEN o
  ELSE LET next == Next(o, current)
       IN MakeChainInactiveLoop(SetNext(o, current, current, kNoPath), next,
                                after_chain)

MakeChainInactive(o, before_chain, chain_end) ==
  IF CheckChainValidity(o, before_chain, chain_end, 0 - 1)
     /\ ~IsPathEnd(o, chain_end)
  THEN LET after_chain == Next(o, chain_end)
           o1 == MakeChainInactiveLoop(o, Next(o, before_chain), after_chain)
           o2 == SetNext(o1, before_chain, after_chain, Path(o1, before_chain))
       IN [ok |-> TRUE, o |-> o2]
  ELSE [ok |-> FALSE, o |-> o]

\* ------------------------------------------------------------------------
\* PathOperator: cursor iteration
\* ------------------------------------------------------------------------

CheckEnds(o) == \E i \in DOMAIN o.base_nodes : o.base_nodes[i] # o.end_nodes[i]

\* First loop of IncrementPosition, from cursor i downwards: advances the
\* first cursor that is not at a path end, restarting the ones passed.
RECURSIVE IncrementLoop(_, _, _)
IncrementLoop(o, i, last_restarted) ==
  IF i < 0 THEN [o |-> o, last_restarted |-> last_restarted]
  ELSE IF o.base_nodes[i] < o.number_of_nexts
       THEN [o |-> [o EXCEPT !.base_nodes[i] = OldNext(o, o.base_nodes[i])],
             last_restarted |-> last_restarted]
       ELSE IncrementLoop([o EXCEPT !.base_nodes[i] = StartNode(o, i)], i - 1, i)

\* Second loop of IncrementPosition: repositions cursors i..size-1.
RECURSIVE RepositionLoop(_, _)
RepositionLoop(o, i) ==
  IF i >= NumberOfBaseNodes(o.kind) THEN o
  ELSE RepositionLoop([o EXCEPT !.base_nodes[i] = GetBaseNodeRestartPosition(o, i)],
                      i + 1)

\* Third loop of IncrementPosition: moves the cursors to the next path.
RECURSIVE NextPathLoop(_, _)
NextPathLoop(o, i) ==
  IF i < 0 THEN [ok |-> CheckEnds(o), o |-> o]
  ELSE LET next_path_index == o.base_paths[i] + 1
       IN IF next_path_index < Len(o.path_starts)
          THEN LET o1 == [o EXCEPT !.base_paths[i] = next_path_index,
                                   !.base_nodes[i] = o.path_starts[next_path_index + 1]]
               IN IF i = 0 \/ ~OnSamePathAsPreviousBase(o1, i)
                  THEN [ok |-> CheckEnds(o1), o |-> o1]
                  ELSE NextPathLoop(o1, i - 1)
          ELSE NextPathLoop([o EXCEPT !.base_paths[i] = 0,
                                      !.base_nodes[i] = o.path_starts[1]],
                            i - 1)

IncrementPosition(o) ==
  IF ~o.just_started
  THEN LET l1 == IncrementLoop(o, NumberOfBaseNodes(o.kind) - 1,
                               NumberOfBaseNodes(o.kind))
           o2 == RepositionLoop(l1.o, l1.last_restarted)
       IN IF l1.last_restarted > 0
          THEN [ok |-> CheckEnds(o2), o |-> o2]
          ELSE NextPathLoop(o2, NumberOfBaseNodes(o.kind) - 1)
  ELSE [ok |-> TRUE, o |-> [o EXCEPT !.just_started = FALSE]]

\* path_starts_ as InitializePathStarts builds it from the reference.
RECURSIVE PathStartsFrom(_, _)
PathStartsFrom(o, i) ==
  IF i >= o.number_of_nexts THEN <<>>
  ELSE (IF \E j \in 0..(o.number_of_nexts - 1) : OldNext(o, j) = i
        THEN <<>> ELSE <<i>>) \o PathStartsFrom(o, i + 1)

InitializePathStarts(o) == [o EXCEPT !.path_starts = PathStartsFrom(o, 0)]

InitializeInactives(o) ==
  [o EXCEPT !.inactives = [i \in 0..(o.number_of_nexts - 1) |-> OldNext(o, i) = i]]

\* One of the two loops of OnSamePath: walks from node along the reference
\* until a path end, looking for target.
RECURSIVE ReachesOnOldPath(_, _, _, _)
ReachesOnOldPath(o, node, target, steps) ==
  IF IsPathEnd(o, node) \/ steps > o.number_of_nexts THEN FALSE
  ELSE IF node = target THEN TRUE
  ELSE ReachesOnOldPath(o, OldNext(o, node), target, steps + 1)

OnSamePath(o, node1, node2) ==
  IF IsInactive(o, node1) # IsInactive(o, node2) THEN FALSE
  ELSE ReachesOnOldPath(o, node1, node2, 0) \/ ReachesOnOldPath(o, node2, node1, 0)

\* Second loop of InitializeBaseNodes: pulls inactive cursors back to the
\* start of their path and records the end positions.
RECURSIVE InitEndNodesLoop(_, _)
InitEndNodesLoop(o, i) ==
  IF i >= NumberOfBaseNodes(o.kind) THEN o
  ELSE LET base_node ==
             IF RestartAtPathStartOnSynchronize(o) \/ IsInactive(o, o.base_nodes[i])
             THEN o.path_starts[o.base_paths[i] + 1]
             ELSE o.base_nodes[i]
       IN InitEndNodesLoop([o EXCEPT !.base_nodes[i] = base_node,
                                     !.end_nodes[i] = base_node], i + 1)

\* Third loop of InitializeBaseNodes: repairs cursors that must share the
\* path of the previous cursor.
RECURSIVE RepairLoop(_, _)
RepairLoop(o, i) ==
  IF i >= NumberOfBaseNodes(o.kind) THEN o
  ELSE IF OnSamePathAsPreviousBase(o, i)
          /\ ~OnSamePath(o, o.base_nodes[i - 1], o.base_nodes[i])
       THEN RepairLoop([o EXCEPT !.base_nodes[i] = o.base_nodes[i - 1],
                                 !.end_nodes[i] = o.base_nodes[i - 1]], i + 1)
       ELSE RepairLoop(o, i + 1)

InitializeBaseNodes(o) ==
  LET o1 == InitializeInactives(InitializePathStarts(o))
      o2 == IF o1.first_start \/ InitPosition(o1)
            THEN [o1 EXCEPT
                    !.base_paths = [i \in DOMAIN @ |-> 0],
                    !.base_nodes = [i \in DOMAIN @ |-> o1.path_starts[1]],
                    !.first_start = FALSE]
            ELSE o1
      o3 == InitEndNodesLoop(o2, 0)
      o4 == RepairLoop(o3, 1)
  IN [o4 EXCEPT !.just_started = TRUE]

\* The loop of BaseInactiveNodeToPathOperator::OnNodeInitialization: the
\* first inactive index from i on, Size() when there is none.
RECURSIVE FirstInactiveFrom(_, _)
FirstInactiveFrom(o, i) ==
  IF i >= o.size THEN o.size
  ELSE IF IsInactive(o, i) THEN i
  ELSE FirstInactiveFrom(o, i + 1)

\* TwoOpt::OnNodeInitialization and
\* BaseInactiveNodeToPathOperator::OnNodeInitialization; the other path
\* operators keep the default.
OnNodeInitialization(o) ==
  IF o.kind = "TwoOpt" THEN [o EXCEPT !.last = 0 - 1]
  ELSE IF IsInactiveNodeKind(o.kind)
  THEN [o EXCEPT !.inactive_node = FirstInactiveFrom(o, 0)]
  ELSE o

PathOperatorOnStart(o) == OnNodeInitialization(InitializeBaseNodes(o))

\* ------------------------------------------------------------------------
\* Path operators: MakeNeighbor
\* ------------------------------------------------------------------------

TwoOptMakeNeighbor(o) ==
  IF o.last_base # BaseNode(o, 0) \/ o.last = 0 - 1
  THEN LET o1 == RevertChanges(o, FALSE)
       IN IF IsPathEnd(o1, BaseNode(o1, 0))
          THEN [ok |-> FALSE, o |-> [o1 EXCEPT !.last = 0 - 1]]
          ELSE LET o2 == [o1 EXCEPT !.last_base = BaseNode(o1, 0),
                                    !.last = Next(o1, BaseNode(o1, 0))]
                   rc == ReverseChain(o2, BaseNode(o2, 0), BaseNode(o2, 1))
               IN IF rc.ok
                  THEN [ok |-> TRUE, o |-> rc.o]
                  ELSE [ok |-> FALSE, o |-> [rc.o EXCEPT !.last = 0 - 1]]
  ELSE LET to_move == Next(o, o.last)
           mc == MoveChain(o, o.last, to_move, BaseNode(o, 0))
       IN [ok |-> mc.ok, o |-> mc.o]

\* The loop of Relocate::MakeNeighbor that walks chain_length nodes; yields
\* -1 when a path end is met.
RECURSIVE RelocateChainEnd(_, _, _)
RelocateChainEnd(o, chain_end, i) ==
  IF i >= o.chain_length THEN chain_end
  ELSE IF IsPathEnd(o, chain_end) THEN 0 - 1
  ELSE RelocateChainEnd(o, Next(o, chain_end), i + 1)

RelocateMakeNeighbor(o) ==
  LET before_chain == BaseNode(o, 0)
      chain_end == RelocateChainEnd(o, before_chain, 0)
  IN IF chain_end = 0 - 1 THEN [ok |-> FALSE, o |-> o]
     ELSE LET mc == MoveChain(o, before_chain, chain_end, BaseNode(o, 1))
          IN [ok |-> mc.ok, o |-> mc.o]

ExchangeMakeNeighbor(o) ==
  LET prev_node0 == BaseNode(o, 0)
      prev_node1 == BaseNode(o, 1)
  IN IF IsPathEnd(o, prev_node0) THEN [ok |-> FALSE, o |-> o]
     ELSE IF IsPathEnd(o, prev_node1) THEN [ok |-> FALSE, o |-> o]
     ELSE LET node0 == Next(o, prev_node0)
              node1 == Next(o, prev_node1)
          IN IF node0 = prev_node1
             THEN LET mc == MoveChain(o, prev_node1, node1, prev_node0)
                  IN [ok |-> mc.ok, o |-> mc.o]
             ELSE IF node1 = prev_node0
             THEN LET mc == MoveChain(o, prev_node0, node0, prev_node1)
                  IN [ok |-> mc.ok, o |-> mc.o]
             ELSE LET m1 == MoveChain(o, prev_node0, node0, prev_node1)
                  IN IF ~m1.ok THEN [ok |-> FALSE, o |-> m1.o]
                     ELSE LET m2 == MoveChain(m1.o, node0, Next(m1.o, node0),
                                              prev_node0)
                          IN [ok |-> m2.ok, o |-> m2.o]

CrossMakeNeighbor(o) ==
  LET node0 == BaseNode(o, 0)
      start0 == StartNode(o, 0)
      node1 == BaseNode(o, 1)
      start1 == StartNode(o, 1)
  IN IF start1 = start0 THEN [ok |-> FALSE, o |-> o]
     ELSE IF ~IsPathEnd(o, node0) /\ ~IsPathEnd(o, node1)
     THEN LET m1 == MoveChain(o, start0, node0, start1)
          IN IF ~m1.ok THEN [ok |-> FALSE, o |-> m1.o]
             ELSE LET m2 == MoveChain(m1.o, node0, node1, start0)
                  IN [ok |-> m2.ok, o |-> m2.o]
     ELSE IF ~IsPathEnd(o, node0)
     THEN LET mc == MoveChain(o, start0, node0, start1)
          IN [ok |-> mc.ok, o |-> mc.o]
     ELSE IF ~IsPathEnd(o, node1)
     THEN LET mc == MoveChain(o, start1, node1, start0)
          IN [ok |-> mc.ok, o |-> mc.o]
     ELSE [ok |-> FALSE, o |-> o]

\* ------------------------------------------------------------------------
\* LinKernighan
\* ------------------------------------------------------------------------

kNeighbors == 6

\* Stands for the least 64-bit integer, the "no candidate" value of
\* InFromOut; every gain of the model is far above it.
kint64min == 0 - 2147483647

\* evaluator_->Run(i, j, path) for the evaluators considered, which ignore
\* the path.
Run(o, i, j, path) == o.evaluator[<<i, j>>]

\* The size of the domain 0..var_size-1 of a next variable: the nodes and
\* the path ends of the model, which are the nodes the evaluator knows.
NextDomainSize(o) == Cardinality({a[1] : a \in DOMAIN o.evaluator})

\* NearestNeighbors::Neighbors(index) for domains of at most kNeighbors
\* values: ComputeNearest keeps the whole domain and sorts it by index.
Neighbors(o, index) == [k \in 1..NextDomainSize(o) |-> k - 1]

\* The for loop of InFromOut from position k of nexts on.
RECURSIVE InFromOutLoop(_, _, _, _, _, _, _, _, _)
InFromOutLoop(o, nexts, marked, in_j, path, current_gain, k, out, best_gain) ==
  IF k > Len(nexts) THEN [out |-> out, best_gain |-> best_gain]
  ELSE LET next == nexts[k]
           new_gain == current_gain - Run(o, in_j, next, path)
       IN IF /\ next # in_j
             /\ new_gain > 0
             /\ next # Next(o, in_j)
             /\ in_j \notin marked
             /\ next \notin marked
             /\ best_gain < new_gain
          THEN InFromOutLoop(o, nexts, marked, in_j, path, current_gain, k + 1,
                             next, new_gain)
          ELSE InFromOutLoop(o, nexts, marked, in_j, path, current_gain, k + 1,
                             out, best_gain)

InFromOut(o, marked, in_i, in_j, out, gain) ==
  LET path == Path(o, in_i)
      current_gain == gain + Run(o, in_i, in_j, path)
      l == InFromOutLoop(o, Neighbors(o, in_j), marked, in_j, path, current_gain, 1,
                         out, kint64min)
  IN [ok |-> l.best_gain > kint64min, out |-> l.out, gain |-> l.best_gain]

\* The while loop of 2-opt moves of LinKernighan::MakeNeighbor; io is the
\* outcome of InFromOut(node, next, &out, &gain).
RECURSIVE LinKernighanTwoOpts(_, _, _, _, _, _, _, _)
LinKernighanAfterInFromOut(o, marked, base, path, node, next, io) ==
  IF ~io.ok THEN [ok |-> FALSE, o |-> o]
  ELSE LET rc == ReverseChain(o, node, io.out)
       IN IF ~rc.ok THEN [ok |-> FALSE, o |-> rc.o]
          ELSE IF io.gain - Run(o, base, rc.chain_last, path)
                  + Run(o, rc.chain_last, io.out, path) > 0
          THEN [ok |-> TRUE, o |-> rc.o]
          ELSE IF IsPathEnd(o, rc.chain_last) \/ IsPathEnd(o, io.out)
          THEN [ok |-> FALSE, o |-> rc.o]
          ELSE LinKernighanTwoOpts(rc.o, marked \cup {next, io.out}, base, path,
                                   rc.chain_last, io.out, io.out, io.gain)

LinKernighanTwoOpts(o, marked, base, path, node, next, out, gain) ==
  LinKernighanAfterInFromOut(o, marked, base, path, node, next,
                             InFromOut(o, marked, node, next, out, gain))

\* The 3-opt move tried first when topt_ is set; io1 and io2 are the
\* outcomes of the two calls of InFromOut.
LinKernighanThreeOptMove(o, marked, path, node, node1, next1, io2) ==
  IF ~io2.ok THEN [ok |-> FALSE, o |-> o]
  ELSE LET mc == MoveChain(o, io2.out, node1, node)
       IN IF ~mc.ok THEN [ok |-> FALSE, o |-> mc.o]
          ELSE LET next_out == Next(mc.o, io2.out)
               IN IF io2.gain - Run(o, node, next_out, path)
                     + Run(o, io2.out, next_out, path) > 0
                  THEN [ok |-> TRUE, o |-> mc.o]
                  ELSE IF IsPathEnd(o, io2.out) \/ IsPathEnd(o, next_out)
                  THEN [ok |-> FALSE, o |-> mc.o]
                  ELSE LinKernighanTwoOpts(mc.o, marked \cup {next1, io2.out}, node,
                                           path, io2.out, next_out, io2.out, io2.gain)

LinKernighanThreeOpt(o, path, node, next, io1) ==
  IF ~io1.ok THEN [ok |-> FALSE, o |-> o]
  ELSE LET node1 == io1.out
       IN IF IsPathEnd(o, node1) THEN [ok |-> FALSE, o |-> o]
          ELSE IF IsPathEnd(o, Next(o, node1)) THEN [ok |-> FALSE, o |-> o]
          ELSE LinKernighanThreeOptMove(
                 o, {node, next, node1}, path, node, node1, Next(o, node1),
                 InFromOut(o, {node, next, node1}, node1, Next(o, node1),
                           io1.out, io1.gain))

LinKernighanMakeNeighbor(o) ==
  LET node == BaseNode(o, 0)
  IN IF IsPathEnd(o, node) THEN [ok |-> FALSE, o |-> o]
     ELSE IF IsPathEnd(o, Next(o, node)) THEN [ok |-> FALSE, o |-> o]
     ELSE IF o.topt
     THEN LinKernighanThreeOpt(o, Path(o, node), node, Next(o, node),
                               InFromOut(o, {node}, node, Next(o, node), 0 - 1, 0))
     ELSE LinKernighanTwoOpts(o, {node}, node, Path(o, node), node, Next(o, node),
                              0 - 1, 0)

GetInactiveNode(o) == o.inactive_node

MakeActiveMakeNeighbor(o) == MakeActive(o, GetInactiveNode(o), BaseNode(o, 0))

MakeInactiveMakeNeighbor(o) ==
  LET base == BaseNode(o, 0)
  IN IF IsPathEnd(o, base) THEN [ok |-> FALSE, o |-> o]
     ELSE MakeChainInactive(o, base, Next(o, base))

SwapActiveMakeNeighbor(o) ==
  LET base == BaseNode(o, 0)
  IN IF IsPathEnd(o, base) THEN [ok |-> FALSE, o |-> o]
     ELSE LET m1 == MakeChainInactive(o, base, Next(o, base))
          IN IF ~m1.ok THEN [ok |-> FALSE, o |-> m1.o]
             ELSE MakeActive(m1.o, GetInactiveNode(m1.o), base)

ExtendedSwapActiveMakeNeighbor(o) ==
  LET base0 == BaseNode(o, 0)
      base1 == BaseNode(o, 1)
  IN IF IsPathEnd(o, base0) THEN [ok |-> FALSE, o |-> o]
     ELSE IF IsPathEnd(o, base1) THEN [ok |-> FALSE, o |-> o]
     ELSE IF Next(o, base0) = base1 THEN [ok |-> FALSE, o |-> o]
     ELSE LET m1 == MakeChainInactive(o, base0, Next(o, base0))
          IN IF ~m1.ok THEN [ok |-> FALSE, o |-> m1.o]
             ELSE MakeActive(m1.o, GetInactiveNode(m1.o), base1)

MakeNeighbor(o) ==
  CASE o.kind = "TwoOpt" -> TwoOptMakeNeighbor(o)
    [] o.kind = "Relocate" -> RelocateMakeNeighbor(o)
    [] o.kind = "Exchange" -> ExchangeMakeNeighbor(o)
    [] o.kind = "Cross" -> CrossMakeNeighbor(o)
    [] o.kind = "MakeActive" -> MakeActiveMakeNeighbor(o)
    [] o.kind = "MakeInactive" -> MakeInactiveMakeNeighbor(o)
    [] o.kind = "SwapActive" -> SwapActiveMakeNeighbor(o)
    [] o.kind = "ExtendedSwapActive" -> ExtendedSwapActiveMakeNeighbor(o)
    [] o.kind = "LinKernighan" -> LinKernighanMakeNeighbor(o)

\* The loop of PathOperator::MakeOneNeighbor: ip is the outcome of
\* IncrementPosition, mn the outcome of MakeNeighbor on the reverted state.
RECURSIVE PathOperatorMakeOneNeighbor(_)
MakeOneNeighborAfterMakeNeighbor(mn) ==
  IF mn.ok THEN mn ELSE PathOperatorMakeOneNeighbor(mn.o)

MakeOneNeighborAfterIncrement(ip) ==
  IF ~ip.ok THEN [ok |-> FALSE, o |-> ip.o]
  ELSE MakeOneNeighborAfterMakeNeighbor(MakeNeighbor(RevertChanges(ip.o, TRUE)))

PathOperatorMakeOneNeighbor(o) ==
  MakeOneNeighborAfterIncrement(IncrementPosition(o))

\* PathOperator::ResetPosition (declared in the solver's internal header):
\* the next IncrementPosition keeps the cursors where they are.
ResetPosition(o) == [o EXCEPT !.just_started = TRUE]

\* The loop of BaseInactiveNodeToPathOperator::MakeOneNeighbor; mk is the
\* outcome of PathOperator::MakeOneNeighbor for the current inactive node.
RECURSIVE BaseInactiveNodeToPathOperatorMakeOneNeighbor(_)
InactiveNodeAfterMakeOneNeighbor(mk) ==
  IF mk.ok THEN mk
  ELSE BaseInactiveNodeToPathOperatorMakeOneNeighbor(
         [ResetPosition(mk.o) EXCEPT !.inactive_node = @ + 1])

BaseInactiveNodeToPathOperatorMakeOneNeighbor(o) ==
  IF o.inactive_node >= o.size THEN [ok |-> FALSE, o |-> o]
  ELSE IF ~IsInactive(o, o.inactive_node)
  THEN BaseInactiveNodeToPathOperatorMakeOneNeighbor(
         [ResetPosition(o) EXCEPT !.inactive_node = @ + 1])
  ELSE InactiveNodeAfterMakeOneNeighbor(PathOperatorMakeOneNeighbor(o))

\* ------------------------------------------------------------------------
\* Value and LNS operators
\* ------------------------------------------------------------------------

\* The loop of BaseLNS::MakeOneNeighbor over fragment[k..].
RECURSIVE DeactivateFragment(_, _, _)
DeactivateFragment(o, fragment, k) ==
  IF k > Len(fragment) THEN o
  ELSE DeactivateFragment(Deactivate(o, fragment[k]), fragment, k + 1)

SimpleLNSNextFragmentWithoutWrap(o) ==
  IF o.index < Size(o)
  THEN [ok |-> TRUE,
        fragment |-> [k \in 1..(IF o.index + o.number_of_variables <= Size(o)
                                THEN o.number_of_variables
                                ELSE Size(o) - o.index) |-> o.index + k - 1],
        o |-> [o EXCEPT !.index = @ + 1]]
  ELSE [ok |-> FALSE, fragment |-> <<>>, o |-> o]

SimpleLNSNextFragment(o) ==
  IF o.index < Size(o)
  THEN [ok |-> TRUE,
        fragment |-> [k \in 1..o.number_of_variables |->
                        (o.index + k - 1) % Size(o)],
        o |-> [o EXCEPT !.index = @ + 1]]
  ELSE [ok |-> FALSE, fragment |-> <<>>, o |-> o]

\* rand holds the values rand_.Uniform(Size()) returns in this call.
RandomLNSNextFragment(o, rand) == [ok |-> TRUE, fragment |-> rand, o |-> o]

BaseLNSMakeOneNeighbor(o, rand) ==
  LET nf == IF o.kind = "SimpleLNS" THEN SimpleLNSNextFragment(o)
            ELSE RandomLNSNextFragment(o, rand)
  IN IF nf.ok
     THEN [ok |-> TRUE, o |-> DeactivateFragment(nf.o, nf.fragment, 1)]
     ELSE [ok |-> FALSE, o |-> nf.o]

ModifyValue(o, index, value) ==
  IF o.kind = "IncrementValue" THEN value + 1 ELSE value - 1

ChangeValueMakeOneNeighbor(o) ==
  IF o.index < Size(o)
  THEN LET value == ModifyValue(o, o.index, Value(o, o.index))
       IN [ok |-> TRUE, o |-> [SetValue(o, o.index, value) EXCEPT !.index = @ + 1]]
  ELSE [ok |-> FALSE, o |-> o]

RECURSIVE MoveTowardTargetMakeOneNeighbor(_)
MoveTowardTargetMakeOneNeighbor(o) ==
  IF o.num_var_since_last_start < Size(o)
  THEN LET o1 == [o EXCEPT !.num_var_since_last_start = @ + 1,
                           !.variable_index = (@ + 1) % Size(o)]
           target_value == o1.target[o1.variable_index]
           current_value == OldValue(o1, o1.variable_index)
       IN IF current_value # target_value
          THEN [ok |-> TRUE, o |-> SetValue(o1, o1.variable_index, target_value)]
          ELSE MoveTowardTargetMakeOneNeighbor(o1)
  ELSE [ok |-> FALSE, o |-> o]

\* ------------------------------------------------------------------------
\* IntVarLocalSearchOperator: Start and MakeNextNeighbor
\* ------------------------------------------------------------------------

MakeOneNeighbor(o, rand) ==
  CASE IsInactiveNodeKind(o.kind) -> BaseInactiveNodeToPathOperatorMakeOneNeighbor(o)
    [] o.kind \in {"TwoOpt", "Exchange", "Relocate", "Cross", "MakeInactive",
                   "LinKernighan"} ->
         PathOperatorMakeOneNeighbor(o)
    [] o.kind \in {"SimpleLNS", "RandomLNS"} -> BaseLNSMakeOneNeighbor(o, rand)
    [] o.kind \in {"IncrementValue", "DecrementValue"} -> ChangeValueMakeOneNeighbor(o)
    [] o.kind = "MoveTowardTargetLS" -> MoveTowardTargetMakeOneNeighbor(o)

OnStartResettingCursor(o) ==
  CASE IsPathKind(o.kind) -> PathOperatorOnStart(o)
    [] o.kind = "SimpleLNS" -> [o EXCEPT !.index = 0]
    [] o.kind = "RandomLNS" -> o
    [] o.kind \in {"IncrementValue", "DecrementValue"} -> [o EXCEPT !.index = 0]
    [] o.kind = "MoveTowardTargetLS" ->
         [o EXCEPT !.num_var_since_last_start = 0, !.variable_index = Size(o) - 1]

OnStart(o) ==
  CASE IsPathKind(o.kind) -> PathOperatorOnStart(o)
    [] o.kind = "SimpleLNS" -> [o EXCEPT !.index = 0]
    [] o.kind = "RandomLNS" -> o
    [] o.kind \in {"IncrementValue", "DecrementValue"} -> [o EXCEPT !.index = 0]
    [] o.kind = "MoveTowardTargetLS" -> [o EXCEPT !.num_var_since_last_start = 0]

\* The element of the container that Start reads for slot i: the i-th one
\* when it belongs to variable i, the element of variable i otherwise.
StartElement(container, i) ==
  IF container[i + 1].var = i THEN container[i + 1]
  ELSE CHOOSE e \in Range(container) : e.var = i

Start(o, container) ==
  OnStart([o EXCEPT
     !.values = [i \in 0..(o.size - 1) |-> StartElement(container, i).value],
     !.old_values = [i \in 0..(o.size - 1) |-> StartElement(container, i).value],
     !.activated = [i \in 0..(o.size - 1) |-> StartElement(container, i).activated],
     !.was_activated = [i \in 0..(o.size - 1) |-> StartElement(container, i).activated]])

\* ApplyChanges always returns true, so the loop of MakeNextNeighbor runs
\* its body once.
MakeNextNeighborAfterMakeOneNeighbor(mk) ==
  IF ~mk.ok
  THEN [ok |-> FALSE, o |-> mk.o, delta |-> <<>>, deltadelta |-> <<>>]
  ELSE [ok |-> TRUE, o |-> mk.o,
        delta |-> ApplyChanges(mk.o).delta,
        deltadelta |-> ApplyChanges(mk.o).deltadelta]

MakeNextNeighbor(o, rand) ==
  MakeNextNeighborAfterMakeOneNeighbor(MakeOneNeighbor(RevertChanges(o, TRUE), rand))

\* ------------------------------------------------------------------------
\* Operator instances and reference assignments
\* ------------------------------------------------------------------------

\* The operator as its constructor leaves it; the value arrays are
\* allocated but not yet written (they are first written by Start).
MakeOperator(kind, size, number_of_nexts, ignore_path_vars, chain_length, single_path, number_of_variables, target) ==
  [kind |-> kind,
   size |-> size,
   values |-> Zeros(size),
   old_values |-> Zeros(size),
   activated |-> AllFalse(size),
   was_activated |-> AllFalse(size),
   has_changed |-> AllFalse(size),
   has_delta_changed |-> AllFalse(size),
   changes |-> <<>>,
   cleared |-> TRUE,
   number_of_nexts |-> number_of_nexts,
   ignore_path_vars |-> ignore_path_vars,
   base_nodes |-> [i \in 0..(NumberOfBaseNodes(kind) - 1) |-> 0],
   end_nodes |-> [i \in 0..(NumberOfBaseNodes(kind) - 1) |-> 0],
   base_paths |-> [i \in 0..(NumberOfBaseNodes(kind) - 1) |-> 0],
   path_starts |-> <<>>,
   inactives |-> <<>>,
   just_started |-> FALSE,
   first_start |-> TRUE,
   last_base |-> 0 - 1,
   last |-> 0 - 1,
   inactive_node |-> 0,
   tsp_size |-> 0,
   evaluator |-> <<>>,
   topt |-> FALSE,
   chain_length |-> chain_length,
   single_path |-> single_path,
   index |-> 0,
   number_of_variables |-> number_of_variables,
   target |-> target,
   variable_index |-> IF kind = "MoveTowardTargetLS" THEN size - 1 ELSE 0,
   num_var_since_last_start |-> 0]

PathKinds == {"TwoOpt", "Exchange", "Relocate", "Cross"}

\* The next values of the single-route scenario of TwoOpt: nodes 0..3 with
\* successors 1, 2, 3 and the end node 4 (the path 1 -> 2 -> 3 -> 4 -> 5 of
\* the comment of TwoOpt).
ScenarioNexts == <<1, 2, 3, 4>>

ScenarioOperators ==
  {MakeOperator("TwoOpt", IF ignore THEN Len(ScenarioNexts) ELSE 2 * Len(ScenarioNexts),
                Len(ScenarioNexts), ignore, 1, FALSE, 0, <<>>) : ignore \in BOOLEAN}

PathOperators ==
  ScenarioOperators
  \cup
  {MakeOperator(kind, IF ignore THEN n ELSE 2 * n, n, ignore, len, single, 0, <<>>) :
     kind \in PathKinds \ {"Relocate"}, n \in 1..MaxNexts, ignore \in BOOLEAN,
     len \in {1}, single \in {FALSE}}
  \cup
  {MakeOperator("Relocate", IF ignore THEN n ELSE 2 * n, n, ignore, len, single, 0, <<>>) :
     n \in 1..MaxNexts, ignore \in BOOLEAN,
     len \in 1..MaxChainLength, single \in BOOLEAN}

ValueDomain == {0, 1}

\* The scenario of SimpleLNS: 5 variables, fragments of 2.
ScenarioLNS == MakeOperator("SimpleLNS", 5, 0, TRUE, 1, FALSE, 2, <<>>)

\* The scenario of MoveTowardTargetLS: 4 variables, target [1, 0, 1, 0].
ScenarioTarget == [i \in 0..3 |-> IF i \in {0, 2} THEN 1 ELSE 0]

ScenarioMoveTowardTarget ==
  MakeOperator("MoveTowardTargetLS", 4, 0, TRUE, 1, FALSE, 0, ScenarioTarget)

ValueOperators ==
  {ScenarioLNS, ScenarioMoveTowardTarget}
  \cup
  {MakeOperator(kind, n, 0, TRUE, 1, FALSE, k, <<>>) :
     kind \in {"SimpleLNS"}, n \in 1..MaxVars, k \in 1..MaxFragment}
  \cup
  {MakeOperator("RandomLNS", c[1], 0, TRUE, 1, FALSE, c[2], <<>>) :
     c \in {d \in (1..MaxVars) \X (1..MaxFragment) : d[2] <= d[1]}}
  \cup
  {MakeOperator(kind, n, 0, TRUE, 1, FALSE, 0, <<>>) :
     kind \in {"IncrementValue", "DecrementValue"}, n \in 1..MaxVars}
  \cup
  UNION {{MakeOperator("MoveTowardTargetLS", n, 0, TRUE, 1, FALSE, 0, target) :
            target \in [0..(n - 1) -> ValueDomain]} : n \in 1..MaxVars}

\* A reference of a path operator with n next variables: the nodes
\* 0..first_end-1 form the first route (ending at node n), the nodes
\* first_end..active-1 the second one (ending at node n+1) and the nodes
\* active..n-1 are inactive (self-loops).  Path variables, when present,
\* hold the route of each node.
PathReference(n, first_end, active, ignore_path_vars) ==
  [s \in 1..(IF ignore_path_vars THEN n ELSE 2 * n) |->
     LET i == s - 1
     IN IF i < n
        THEN ValueElement(i, IF i >= active THEN i
                             ELSE IF i = first_end - 1 THEN n
                             ELSE IF i = active - 1 THEN n + 1
                             ELSE i + 1)
        ELSE ValueElement(i, IF i - n >= active THEN kNoPath
                             ELSE IF i - n < first_end THEN 0 ELSE 1)]

PathReferences(o) ==
  {PathReference(o.number_of_nexts, c[1], c[2], o.ignore_path_vars) :
     c \in {d \in (1..o.number_of_nexts) \X (1..o.number_of_nexts) :
              d[2] >= d[1] /\ d[2] >= o.number_of_nexts - 1}}

\* References of the value operators: every variable has a value of the
\* domain; variable 0 may be deactivated.
ValueReferences(o) ==
  {[s \in 1..o.size |->
      IF s = 1 /\ ~first_activated THEN DeactivatedElement(0)
      ELSE ValueElement(s - 1, vals[s - 1])] :
     vals \in [0..(o.size - 1) -> ValueDomain], first_activated \in BOOLEAN}

References(o) == IF IsPathKind(o.kind) THEN PathReferences(o) ELSE ValueReferences(o)

\* The assignment obtained by applying the elements delta[k..] to assignment a
\* (Assignment::Copy of a delta onto a copy of the reference).
RECURSIVE CopyDelta(_, _, _)
CopyDelta(a, d, k) ==
  IF k > Len(d) THEN a
  ELSE CopyDelta([s \in DOMAIN a |-> IF a[s].var = d[k].var THEN d[k] ELSE a[s]],
                 d, k + 1)

\* The candidate read from the staged arrays of the operator.
Staged(o) ==
  [s \in 1..o.size |->
     [var |-> s - 1, activated |-> o.activated[s - 1], value |-> o.values[s - 1]]]

\* Equality of assignments: two deactivated elements of the same variable
\* are equal whatever value they hold.
SameAssignment(a, b) ==
  /\ Len(a) = Len(b)
  /\ \A s \in DOMAIN a :
       /\ a[s].var = b[s].var
       /\ a[s].activated = b[s].activated
       /\ a[s].activated => a[s].value = b[s].value

\* Solutions the nested solve can store for a candidate: the variables the
\* candidate leaves free take a value of the domain.
Completions(a) ==
  {[s \in DOMAIN a |-> IF a[s].activated THEN a[s] ELSE ValueElement(a[s].var, vals[s])] :
     vals \in [DOMAIN a -> ValueDomain]}

\* The next values of an assignment container describe a disjoint union of
\* simple paths (ending at a node >= n) and self-loops.
RECURSIVE ReachesEnd(_, _, _, _)
ReachesEnd(a, n, node, steps) ==
  IF node >= n THEN TRUE
  ELSE IF steps > n THEN FALSE
  ELSE ReachesEnd(a, n, a[node + 1].value, steps + 1)

IsRouteSet(a, n) ==
  /\ \A i \in 0..(n - 1) : a[i + 1].activated /\ a[i + 1].value \in 0..(n + 1)
  /\ \A i, j \in 0..(n - 1) : i # j => a[i + 1].value # a[j + 1].value
  /\ \A i \in 0..(n - 1) : a[i + 1].value = i \/ ReachesEnd(a, n, i, 0)

\* Nodes of 0..n-1 without predecessor, in increasing order.
RECURSIVE RouteStarts(_, _, _)
RouteStarts(a, n, i) ==
  IF i >= n THEN <<>>
  ELSE (IF \E j \in 0..(n - 1) : a[j + 1].value = i THEN <<>> ELSE <<i>>)
       \o RouteStarts(a, n, i + 1)

\* ------------------------------------------------------------------------
\* State of the operator under test and of its caller
\* ------------------------------------------------------------------------

VARIABLES
  op,            \* the operator object
  started,       \* Start has been called at least once
  reference,     \* the assignment of the last Start
  delta,         \* delta filled by the last MakeNextNeighbor
  deltadelta,    \* deltadelta filled by the last MakeNextNeighbor
  last_call,     \* "none", "Start" or "MakeNextNeighbor"
  result,        \* value returned by the last MakeNextNeighbor
  calls,         \* MakeNextNeighbor calls since the last Start (0, 1, 2 = more)
  emitted,       \* candidates of the successful calls since the last Start,
                 \* up to the first call that returned false
  exhausted,     \* a call returned false since the last Start
  first_episode, \* the last Start was the first one of the operator
  accepted,      \* candidate of the last successful call since the last Start
  prev_values    \* staged values before the last MakeNextNeighbor

opvars == <<op, started, reference, delta, deltadelta, last_call, result, calls,
            emitted, exhausted, first_episode, accepted, prev_values>>

VARIABLES
  flt,           \* the filter object (with its operation object)
  f_last_call,   \* "none", "Synchronize" or "Accept"
  f_reference,   \* the assignment of the last Synchronize
  f_delta,       \* delta of the last Accept
  f_deltadelta,  \* deltadelta of the last Accept
  f_value,       \* value computed by the last Accept
  f_accepted,    \* value returned by the last Accept
  f_accepts,     \* Accept calls since the last Synchronize
  f_protocol,    \* every Accept since the last Synchronize had a deltadelta
                 \* that was empty or held exactly the elements of its delta
                 \* that changed since the delta of the Accept before, that
                 \* delta having no variable its successor lacks
  f_objective    \* objective carried by the delta of the last Accept

fltvars == <<flt, f_last_call, f_reference, f_delta, f_deltadelta, f_value,
             f_accepted, f_accepts, f_protocol, f_objective>>

\* The combinators (CompoundOperator, NeighborhoodLimit) over sub-operators
\* and what their caller saw.
VARIABLES
  cmp,           \* the CompoundOperator: index_, size_, operator_indices_,
                 \* its evaluator and its sub-operators
  c_obs,         \* the caller's record of the calls on the CompoundOperator
  lim,           \* the NeighborhoodLimit: limit_, next_neighborhood_calls_
                 \* and the wrapped operator
  l_obs          \* the caller's record of the calls on the NeighborhoodLimit

\* The driver of one local search step.
VARIABLES
  drv            \* the FindOneNeighbor: assignment_, reference_assignment_,
                 \* pool_, ls_operator_, neighbor_found_, the position of
                 \* Next and what its last step called

VARIABLES
  ls   \* the LocalSearch decision builder, its NestedSolveDecisions and the choice points of the solver above it

VARIABLES
  st   \* an operator, the assignment Start was last called with and how the call ended

VARIABLES
  pe   \* the path operator whose edit primitives are observed

VARIABLES
  tl   \* the TSPLns operator and the position of its retry loop

VARIABLES
  lk   \* the LinKernighan operator and its last call

VARIABLES
  sg   \* staging of changes: mutators, MakeNextNeighbor and RevertChanges

VARIABLES
  csr   \* cursor iteration of a path operator

VARIABLES
  nn   \* nearest neighbors of a row

VARIABLES
  ps   \* periodic check of the solution pool

auxvars == <<cmp, c_obs, lim, l_obs, drv, ls, st, pe, tl, lk, sg, csr, nn, ps>>

vars == <<opvars, fltvars, auxvars>>

\* The combinator variables in the behaviours that exercise no combinator.
AuxIdle ==
  /\ cmp = [size |-> 0]
  /\ c_obs = <<>>
  /\ lim = [limit |-> 0]
  /\ l_obs = <<>>
  /\ drv = [pc |-> "none"]
  /\ ls = [pc |-> "none"]
  /\ st = [pc |-> "none"]
  /\ pe = [pc |-> "none"]
  /\ tl = [pc |-> "none"]
  /\ lk = [pc |-> "none"]
  /\ sg = [pc |-> "idle"]
  /\ csr = [pc |-> "idle"]
  /\ nn = [pc |-> "idle"]
  /\ ps = [pc |-> "idle"]

\* Stand-in for the filter in the behaviours that exercise an operator alone.
NoFilter == [op_enum |-> "none"]

\* The objective carried by a delta: var says whether the delta has no
\* objective ("none"), the objective variable of the filter ("objective") or
\* another variable ("other"); min and max are ObjectiveMin / ObjectiveMax.
NoObjective == [var |-> "none", min |-> 0, max |-> 0]

FilterIdle ==
  /\ flt = NoFilter
  /\ f_last_call = "none"
  /\ f_reference = <<>>
  /\ f_delta = <<>>
  /\ f_deltadelta = <<>>
  /\ f_value = 0
  /\ f_accepted = FALSE
  /\ f_accepts = 0
  /\ f_protocol = TRUE
  /\ f_objective = NoObjective

InitOperator ==
  /\ op \in PathOperators \cup ValueOperators
  /\ started = FALSE
  /\ reference = <<>>
  /\ delta = <<>>
  /\ deltadelta = <<>>
  /\ last_call = "none"
  /\ result = FALSE
  /\ calls = 0
  /\ emitted = <<>>
  /\ exhausted = FALSE
  /\ first_episode = FALSE
  /\ accepted = <<>>
  /\ prev_values = <<>>
  /\ FilterIdle
  /\ AuxIdle

\* Assignments the caller can start the operator with: any reference at
\* first; afterwards the same reference again (re-synchronisation) or a
\* solution of the last neighbor found.  A solution respects the domains of
\* the variables, and the routes of a routing model keep their first nodes.
StartChoices ==
  IF ~started THEN References(op)
  ELSE {a \in {reference} \cup Completions(accepted) :
          IF IsPathKind(op.kind)
          THEN /\ IsRouteSet(a, op.number_of_nexts)
               /\ RouteStarts(a, op.number_of_nexts, 0) = op.path_starts
          ELSE \A s \in DOMAIN a : a[s].activated => a[s].value \in ValueDomain}

\* Values rand_.Uniform(Size()) can return during one MakeNextNeighbor.
RandChoices(o) ==
  IF o.kind = "RandomLNS"
  THEN [1..o.number_of_variables -> 0..(o.size - 1)]
  ELSE {<<>>}

OpStart ==
  \E a \in StartChoices :
    /\ op' = Start(op, a)
    /\ started' = TRUE
    /\ reference' = a
    /\ delta' = <<>>
    /\ deltadelta' = <<>>
    /\ last_call' = "Start"
    /\ result' = FALSE
    /\ calls' = 0
    /\ emitted' = <<>>
    /\ exhausted' = FALSE
    /\ first_episode' = ~started
    /\ accepted' = a
    /\ prev_values' = Start(op, a).values
    /\ UNCHANGED <<fltvars, auxvars>>

\* MakeNextNeighbor called with empty delta and deltadelta, as the driver
\* does (it clears both before each call).
OpMakeNextNeighbor ==
  /\ started
  /\ \E rand \in RandChoices(op) :
       \E r \in {MakeNextNeighbor(op, rand)} :
          /\ op' = r.o
          /\ delta' = r.delta
          /\ deltadelta' = r.deltadelta
          /\ result' = r.ok
          /\ emitted' = IF r.ok /\ ~exhausted /\ op.kind # "RandomLNS"
                        THEN Append(emitted, [values |-> r.o.values, delta |-> r.delta,
                                              deltadelta |-> r.deltadelta])
                        ELSE emitted
          /\ exhausted' = (exhausted \/ ~r.ok)
          /\ accepted' = IF r.ok THEN CopyDelta(reference, r.delta, 1) ELSE accepted
  /\ last_call' = "MakeNextNeighbor"
  /\ calls' = IF calls < 2 THEN calls + 1 ELSE calls
  /\ prev_values' = op.values
  /\ UNCHANGED <<started, reference, first_episode>>
  /\ UNCHANGED <<fltvars, auxvars>>

NextOperator == OpStart \/ OpMakeNextNeighbor

SpecOperator == InitOperator /\ [][NextOperator]_vars

\* ------------------------------------------------------------------------
\* Properties of the operators
\* ------------------------------------------------------------------------

InReferenceState(o) ==
  /\ \A i \in 0..(o.size - 1) : o.values[i] = o.old_values[i]
  /\ \A i \in 0..(o.size - 1) : o.activated[i] = o.was_activated[i]

\* C1: whenever MakeNextNeighbor, called with an empty delta after Start(R),
\* returns true, applying delta to a copy of R yields the assignment held by
\* the staged value / activated arrays of the operator.
C1_DeltaDescribesCandidate ==
  (last_call = "MakeNextNeighbor" /\ result)
    => SameAssignment(CopyDelta(reference, delta, 1), Staged(op))

\* A successful call of a path operator with path variables whose delta
\* also carries an element that SkipUnchanged refused to skip.
C1_Witness ==
  /\ last_call = "MakeNextNeighbor" /\ result
  /\ IsPathKind(op.kind) /\ ~op.ignore_path_vars
  /\ \E k \in DOMAIN delta : delta[k].value = op.old_values[delta[k].var]
  /\ \E k \in DOMAIN delta : delta[k].value # op.old_values[delta[k].var]

RECURSIVE TourFrom(_, _, _, _)
TourFrom(values, n, node, steps) ==
  IF node >= n \/ steps > n THEN <<node>>
  ELSE <<node>> \o TourFrom(values, n, values[node], steps + 1)

ClosedTour(values, n, start) == TourFrom(values, n, values[start], 0) \o <<start>>

\* The three neighbors of the scenario, as closed loops.
ScenarioCandidates == << <<2, 1, 3, 4, 0>>, <<3, 2, 1, 4, 0>>, <<1, 3, 2, 4, 0>> >>

\* The first episode of a TwoOpt started on the route of the scenario.
InScenario ==
  /\ op.kind = "TwoOpt"
  /\ started /\ first_episode
  /\ op.number_of_nexts = Len(ScenarioNexts)
  /\ \A i \in 1..Len(ScenarioNexts) : reference[i].value = ScenarioNexts[i]

ToursOf(es) == [k \in DOMAIN es |-> ClosedTour(es[k].values, op.number_of_nexts, 0)]

IsPrefix(s, t) == Len(s) <= Len(t) /\ \A k \in DOMAIN s : s[k] = t[k]

HasDelta(e) == e.delta # <<>>

\* C3 as stated: in the scenario the successful calls are exactly three, none
\* with an empty delta, yielding the three candidates in order, and then the
\* call returns false.
C3_ExactlyThreeSuccessfulCalls ==
  InScenario =>
    /\ IsPrefix(ToursOf(emitted), ScenarioCandidates)
    /\ \A k \in DOMAIN emitted : HasDelta(emitted[k])
    /\ exhausted => ToursOf(emitted) = ScenarioCandidates

\* The call of the scenario that yields the second candidate.
AtSecondCandidate ==
  /\ InScenario /\ ~exhausted
  /\ last_call = "MakeNextNeighbor" /\ result
  /\ ClosedTour(op.values, op.number_of_nexts, 0) = ScenarioCandidates[2]

NextIndices(d) == {d[k].var : k \in {j \in DOMAIN d : d[j].var < op.number_of_nexts}}

\* C4 as stated: on the call of the scenario that yields the second
\* candidate, deltadelta contains only one variable index, while delta
\* describes the whole candidate.
C4_DeltaDeltaHasOneIndex ==
  AtSecondCandidate =>
    /\ Cardinality({deltadelta[k].var : k \in DOMAIN deltadelta}) = 1
    /\ SameAssignment(CopyDelta(reference, delta, 1), Staged(op))

\* C4 amended: on that call deltadelta contains the elements of the next
\* variables whose staged value changed since the previous call, which are
\* three (the node moved, the base node and the node before the moved one),
\* with the path variables of these nodes when the operator has path
\* variables; every element of deltadelta is in delta, and delta describes
\* the whole candidate (four next variables).
C4_DeltaDeltaHasTheThreeChangedIndices ==
  AtSecondCandidate =>
    /\ NextIndices(deltadelta) =
         {i \in 0..(op.number_of_nexts - 1) : op.values[i] # prev_values[i]}
    /\ Cardinality(NextIndices(deltadelta)) = 3
    /\ \A k \in DOMAIN deltadelta :
         deltadelta[k].var >= op.number_of_nexts =>
           (deltadelta[k].var - op.number_of_nexts) \in NextIndices(deltadelta)
    /\ \A k \in DOMAIN deltadelta : deltadelta[k] \in Range(delta)
    /\ Cardinality(NextIndices(delta)) = Len(ScenarioNexts)
    /\ SameAssignment(CopyDelta(reference, delta, 1), Staged(op))

C4_Witness == AtSecondCandidate /\ Len(deltadelta) < Len(delta)

\* C5: for the incremental operator (TwoOpt), after any sequence of Start and
\* MakeNextNeighbor calls, every element of deltadelta is an element of
\* delta (same variable, same value or deactivation), and deltadelta is
\* empty on the first MakeNextNeighbor call after each Start.
C5_DeltaDeltaWithinDelta ==
  (last_call = "MakeNextNeighbor" /\ IsIncremental(op)) =>
    /\ \A k \in DOMAIN deltadelta : deltadelta[k] \in Range(delta)
    /\ calls = 1 => deltadelta = <<>>

\* A later call of an episode whose deltadelta is a proper part of delta.
C5_Witness ==
  /\ last_call = "MakeNextNeighbor" /\ IsIncremental(op) /\ result
  /\ calls = 2
  /\ deltadelta # <<>>
  /\ Len(deltadelta) < Len(delta)

\* ------------------------------------------------------------------------
\* LSOperation: SumOperation, ProductOperation, MaxMinOperation
\* (the operation object op_ of the filter is held in the fields value_ and
\* values_set of the filter record)
\* ------------------------------------------------------------------------

IsMaxMin(f) == f.op_enum \in {"MAX", "MIN"}

OpInit(f) ==
  CASE f.op_enum = "SUM" -> [f EXCEPT !.value_ = 0]
    [] f.op_enum = "PROD" -> [f EXCEPT !.value_ = 1]
    [] OTHER -> [f EXCEPT !.values_set = {}]

OpUpdate(f, update) ==
  CASE f.op_enum = "SUM" -> [f EXCEPT !.value_ = @ + update]
    [] f.op_enum = "PROD" -> [f EXCEPT !.value_ = @ * update]
    [] OTHER -> [f EXCEPT !.values_set = @ \cup {update}]

\* Division of int64 operands, which truncates toward zero.
TruncDiv(a, b) ==
  IF (a >= 0) = (b > 0)
  THEN (IF a >= 0 THEN a ELSE 0 - a) \div (IF b > 0 THEN b ELSE 0 - b)
  ELSE 0 - ((IF a >= 0 THEN a ELSE 0 - a) \div (IF b > 0 THEN b ELSE 0 - b))

\* SumOperation::Remove that leaves the value as it is.
OpRemoveKeepsSum(f, remove) ==
  CASE f.op_enum = "SUM" -> f
    [] f.op_enum = "PROD" ->
         IF remove # 0 THEN [f EXCEPT !.value_ = TruncDiv(@, remove)] ELSE f
    [] OTHER -> [f EXCEPT !.values_set = @ \ {remove}]

OpRemove(f, remove) ==
  CASE f.op_enum = "SUM" -> [f EXCEPT !.value_ = @ - remove]
    [] f.op_enum = "PROD" ->
         IF remove # 0 THEN [f EXCEPT !.value_ = TruncDiv(@, remove)] ELSE f
    [] OTHER -> [f EXCEPT !.values_set = @ \ {remove}]

SetMax(S) == CHOOSE x \in S : \A y \in S : y <= x

SetMin(S) == CHOOSE x \in S : \A y \in S : x <= y

OpValue(f) ==
  IF ~IsMaxMin(f) THEN f.value_
  ELSE IF f.values_set # {}
       THEN (IF f.op_enum = "MAX" THEN SetMax(f.values_set) ELSE SetMin(f.values_set))
       ELSE 0

OpSetValue(f, new_value) ==
  IF IsMaxMin(f) THEN f ELSE [f EXCEPT !.value_ = new_value]

\* ------------------------------------------------------------------------
\* IntVarLocalSearchFilter / ObjectiveFilter / BinaryObjectiveFilter
\* ------------------------------------------------------------------------

\* The IndexEvaluator2 callback of the filter (repeatable).
RunEvaluator(f, index, value) ==
  IF f.evaluator = "shifted" THEN index + value ELSE value

FindIndex(f, var) == var \in 0..(f.size - 1)

\* The loop of IntVarLocalSearchFilter::Synchronize over the elements
\* container[k..]: the value of every element of a tracked variable is
\* copied, whether the element is activated or not.
RECURSIVE SynchronizeValuesFrom(_, _, _)
SynchronizeValuesFrom(f, container, k) ==
  IF k > Len(container) THEN f
  ELSE SynchronizeValuesFrom(
         IF FindIndex(f, container[k].var)
         THEN [f EXCEPT !.values[container[k].var] = container[k].value]
         ELSE f,
         container, k + 1)

SynchronizedElementValue(f, index) == RunEvaluator(f, index, f.values[index])

\* The loop of OnSynchronize from index i on.
RECURSIVE OnSynchronizeFrom(_, _)
OnSynchronizeFrom(f, i) ==
  IF i >= f.size THEN f
  ELSE LET obj_value == SynchronizedElementValue(f, i)
       IN OnSynchronizeFrom(
            OpUpdate([f EXCEPT !.cache[i] = obj_value,
                               !.delta_cache[i] = obj_value], obj_value),
            i + 1)

OnSynchronize(f) ==
  LET f1 == OnSynchronizeFrom(OpInit(f), 0)
  IN [f1 EXCEPT !.old_value = OpValue(f1),
                !.old_delta_value = OpValue(f1),
                !.incremental = FALSE]

Synchronize(f, container) == OnSynchronize(SynchronizeValuesFrom(f, container, 1))

\* BinaryObjectiveFilter::EvaluateElementValue on one element.
EvaluateElementValue(f, element, index) ==
  IF element.activated
  THEN [ok |-> TRUE, obj_value |-> RunEvaluator(f, index, element.value)]
  ELSE IF f.var_bound[index]
       THEN [ok |-> TRUE, obj_value |-> RunEvaluator(f, index, f.var_min[index])]
       ELSE [ok |-> FALSE, obj_value |-> 0]

\* The loop of Evaluate over the elements container[k..]; out_values is
\* cache_ (use_delta_cache = FALSE) or delta_cache_ (TRUE).
RECURSIVE EvaluateFrom(_, _, _, _, _)
EvaluateFrom(f, container, k, use_delta_cache, cache_delta_values) ==
  IF k > Len(container) THEN f
  ELSE LET index == container[k].var
       IN IF FindIndex(f, index) /\ index < f.size
          THEN LET out == IF use_delta_cache THEN f.delta_cache[index]
                          ELSE f.cache[index]
                   f1 == OpRemove(f, out)
                   ev == EvaluateElementValue(f1, container[k], index)
                   f2 == IF ev.ok
                         THEN LET f3 == OpUpdate(f1, ev.obj_value)
                              IN IF cache_delta_values
                                 THEN [f3 EXCEPT !.delta_cache[index] = ev.obj_value]
                                 ELSE f3
                         ELSE f1
               IN EvaluateFrom(f2, container, k + 1, use_delta_cache,
                               cache_delta_values)
          ELSE EvaluateFrom(f, container, k + 1, use_delta_cache,
                            cache_delta_values)

\* Evaluate; the early return on current_value = kint64max is left out: the
\* aggregates of the bounded contributions of the model never reach it.
Evaluate(f, container, current_value, use_delta_cache, cache_delta_values) ==
  LET f1 == EvaluateFrom(OpSetValue(f, current_value), container, 1,
                         use_delta_cache, cache_delta_values)
  IN [f |-> f1, value |-> OpValue(f1)]

Max2(a, b) == IF a >= b THEN a ELSE b

Min2(a, b) == IF a <= b THEN a ELSE b

\* var_min and var_max of Accept: the bounds of the objective variable,
\* tightened by the bounds of the delta when the delta carries that variable.
ObjectiveVarMin(f, objective) ==
  IF objective.var = "objective" THEN Max2(f.objective_min, objective.min)
  ELSE f.objective_min

ObjectiveVarMaxWithoutDelta(f, objective) == f.objective_max

ObjectiveVarMax(f, objective) ==
  IF objective.var = "objective" THEN Min2(f.objective_max, objective.max)
  ELSE f.objective_max

Accept(f, d, dd, objective) ==
  LET ev == IF dd # <<>>
            THEN (IF ~f.incremental
                  THEN Evaluate(f, d, f.old_value, FALSE, TRUE)
                  ELSE Evaluate(f, dd, f.old_delta_value, TRUE, TRUE))
            ELSE Evaluate(IF f.incremental
                          THEN [f EXCEPT !.delta_cache = f.cache,
                                         !.old_delta_value = f.old_value]
                          ELSE f,
                          d, f.old_value, FALSE, FALSE)
      f1 == [ev.f EXCEPT !.incremental = (dd # <<>>),
                         !.old_delta_value = ev.value]
      var_min == ObjectiveVarMin(f, objective)
      var_max == ObjectiveVarMax(f, objective)
  IN [f |-> f1,
      value |-> ev.value,
      accepted |->
        CASE f.filter_enum = "LE" -> ev.value <= var_max
          [] f.filter_enum = "GE" -> ev.value >= var_min
          [] f.filter_enum = "EQ" -> ev.value <= var_max /\ ev.value >= var_min]

\* ------------------------------------------------------------------------
\* Filters under test and their callers
\* ------------------------------------------------------------------------

\* Largest number of variables of a filter, the filter of the scenario apart.
MaxFilterVars == 2

\* Largest number of elements of a delta handed to a filter.
MaxDeltaLen == 2

\* Largest number of Accept calls between two Synchronize calls.
MaxAccepts == 2

\* Values the variables of the filters take.
FilterValues == {0, 1, 2}

\* The filter after construction (MakeLocalSearchObjectiveFilter with an
\* IndexEvaluator2): var_bound / var_min describe the variables (Bound(),
\* Min()), objective_min / objective_max the objective variable.
MakeFilter(op_enum, filter_enum, evaluator, size, var_bound, var_min, objective_min, objective_max) ==
  LET f == [op_enum |-> op_enum,
            filter_enum |-> filter_enum,
            evaluator |-> evaluator,
            size |-> size,
            values |-> Zeros(size),
            cache |-> Zeros(size),
            delta_cache |-> Zeros(size),
            old_value |-> 0,
            old_delta_value |-> 0,
            incremental |-> FALSE,
            value_ |-> 0,
            values_set |-> {},
            var_bound |-> var_bound,
            var_min |-> var_min,
            objective_min |-> objective_min,
            objective_max |-> objective_max]
      f1 == OpInit(f)
  IN [f1 EXCEPT !.old_value = OpValue(f1)]

\* The reference of the scenario of the SUM / LE filter.
FilterScenarioValues == <<10, 20, 30, 40>>

\* The deltas of the scenario: none, variable 2 := 29, variable 2 := 31.
FilterScenarioDeltas == {<<>>, <<ValueElement(2, 29)>>, <<ValueElement(2, 31)>>}

ScenarioFilter ==
  MakeFilter("SUM", "LE", "value", Len(FilterScenarioValues),
             AllFalse(Len(FilterScenarioValues)), Zeros(Len(FilterScenarioValues)),
             0, 100)

IsScenarioFilter(f) == f.size = Len(FilterScenarioValues) /\ f.evaluator = "value"

\* Bounds of the objective variable of the filters of the family.
ObjectiveBounds == {<<1, 2>>}

\* The filters of the family: every operation with the bound LE, SUM with
\* every bound; every operation and LE again with the last variable fixed.
FilterKinds ==
  ({"SUM", "PROD", "MAX", "MIN"} \X {"LE"} \X BOOLEAN)
  \cup ({"SUM"} \X {"GE", "EQ"} \X {FALSE})

Filters ==
  {ScenarioFilter}
  \cup
  UNION {{MakeFilter(k[1], k[2], "shifted", size,
                     [i \in 0..(size - 1) |-> k[3] /\ i = size - 1],
                     [i \in 0..(size - 1) |-> IF k[3] /\ i = size - 1 THEN 1 ELSE 0],
                     ob[1], ob[2]) :
            k \in FilterKinds, ob \in ObjectiveBounds} : size \in 1..MaxFilterVars}

\* Values a variable of the filter can take in a solution.
FilterDomain(f, index) ==
  IF IsScenarioFilter(f)
  THEN {FilterScenarioValues[index + 1]} \cup
       UNION {{d[k].value : k \in {j \in DOMAIN d : d[j].var = index}} :
                d \in FilterScenarioDeltas}
  ELSE IF f.var_bound[index] THEN {f.var_min[index]}
  ELSE FilterValues

\* Assignments a filter can be synchronized with at first.
FilterReferences(f) ==
  IF IsScenarioFilter(f)
  THEN {[s \in 1..f.size |-> ValueElement(s - 1, FilterScenarioValues[s])]}
  ELSE {[s \in 1..f.size |-> ValueElement(s - 1, vals[s - 1])] :
          vals \in {v \in [0..(f.size - 1) -> FilterValues] :
                      \A i \in 0..(f.size - 1) : v[i] \in FilterDomain(f, i)}}

\* Elements a delta can hold for a variable of the filter.
FilterElements(f) ==
  UNION {{DeactivatedElement(index)} \cup
         {ValueElement(index, v) : v \in FilterValues} :
         index \in 0..(f.size - 1)}

\* Deltas: sequences of at most MaxDeltaLen elements of distinct variables.
RECURSIVE DeltasOfLen(_, _)
DeltasOfLen(f, len) ==
  IF len = 0 THEN {<<>>}
  ELSE {Append(d, e) : d \in DeltasOfLen(f, len - 1),
                       e \in FilterElements(f)} 

FilterDeltas(f) ==
  IF IsScenarioFilter(f) THEN FilterScenarioDeltas
  ELSE
  {d \in UNION {DeltasOfLen(f, len) : len \in 0..MaxDeltaLen} :
     \A j, k \in DOMAIN d : j # k => d[j].var # d[k].var}

IsChangedElement(previous, e) == e \notin Range(previous)

\* The elements of d that are not elements of the delta before.
ChangedElements(previous, d) ==
  LET Keep(e) == IsChangedElement(previous, e) IN SelectSeq(d, Keep)

PreviousDelta == IF f_last_call = "Accept" THEN f_delta ELSE <<>>

DeltaVars(d) == {d[k].var : k \in DOMAIN d}

\* dd is the deltadelta an incremental operator hands with d after the delta
\* before: the changed elements, every variable of the delta before being
\* still in d.
IsIncrementOf(previous, d, dd) ==
  /\ dd = ChangedElements(previous, d)
  /\ DeltaVars(previous) \subseteq DeltaVars(d)

\* Deltadeltas handed with a delta: none (non-incremental operators and
\* first calls), the changed elements, or the whole delta.
FilterDeltaDeltas(d) == {<<>>, d, ChangedElements(PreviousDelta, d)}

\* The operator variables in the behaviours that exercise no operator.
OperatorIdle ==
  /\ op = MakeOperator("SimpleLNS", 1, 0, TRUE, 1, FALSE, 1, <<>>)
  /\ started = FALSE
  /\ reference = <<>>
  /\ delta = <<>>
  /\ deltadelta = <<>>
  /\ last_call = "none"
  /\ result = FALSE
  /\ calls = 0
  /\ emitted = <<>>
  /\ exhausted = FALSE
  /\ first_episode = FALSE
  /\ accepted = <<>>
  /\ prev_values = <<>>

\* The filter variables before the first call on a filter.
FilterFresh ==
  /\ f_last_call = "none"
  /\ f_reference = <<>>
  /\ f_delta = <<>>
  /\ f_deltadelta = <<>>
  /\ f_value = 0
  /\ f_accepted = FALSE
  /\ f_accepts = 0
  /\ f_protocol = TRUE
  /\ f_objective = NoObjective

InitFilter ==
  /\ flt \in Filters
  /\ FilterFresh
  /\ OperatorIdle
  /\ AuxIdle

\* Assignments the caller synchronizes the filter with: any reference at
\* first; afterwards the same reference again or a solution of the last
\* candidate the filter accepted.
SynchronizeChoices ==
  IF f_last_call = "none" THEN FilterReferences(flt)
  ELSE {f_reference} \cup
       (IF f_last_call = "Accept" /\ f_accepted
        THEN LET c == CopyDelta(f_reference, f_delta, 1)
             IN {a \in {[s \in DOMAIN c |->
                           IF c[s].activated THEN c[s]
                           ELSE ValueElement(c[s].var, vals[s])] :
                          vals \in [DOMAIN c -> FilterValues]} :
                   \A s \in DOMAIN a : a[s].value \in FilterDomain(flt, a[s].var)}
        ELSE {})

FltSynchronize ==
  \E a \in SynchronizeChoices :
    /\ flt' = Synchronize(flt, a)
    /\ f_last_call' = "Synchronize"
    /\ f_reference' = a
    /\ f_delta' = <<>>
    /\ f_deltadelta' = <<>>
    /\ f_value' = 0
    /\ f_accepted' = FALSE
    /\ f_accepts' = 0
    /\ f_protocol' = TRUE
    /\ f_objective' = NoObjective
    /\ UNCHANGED <<opvars, auxvars>>

\* Accept on a delta that does not carry the objective of the filter.
FltAccept ==
  /\ f_last_call # "none"
  /\ f_accepts < MaxAccepts
  /\ f_accepts' = f_accepts + 1
  /\ \E d \in FilterDeltas(flt) :
       \E dd \in FilterDeltaDeltas(d) :
         \E r \in {Accept(flt, d, dd, NoObjective)} :
            /\ flt' = r.f
            /\ f_delta' = d
            /\ f_deltadelta' = dd
            /\ f_value' = r.value
            /\ f_accepted' = r.accepted
            /\ f_protocol' = (f_protocol /\
                              (dd = <<>> \/ IsIncrementOf(PreviousDelta, d, dd)))
  /\ f_last_call' = "Accept"
  /\ f_objective' = NoObjective
  /\ UNCHANGED f_reference
  /\ UNCHANGED <<opvars, auxvars>>

NextFilter == FltSynchronize \/ FltAccept

SpecFilter == InitFilter /\ [][NextFilter]_vars

\* ------------------------------------------------------------------------
\* Properties of the objective filter
\* ------------------------------------------------------------------------

\* The candidate of the last Accept: the reference with delta applied.
FilterCandidate == CopyDelta(f_reference, f_delta, 1)

\* Every element of the last delta has a value: it is activated, or its
\* variable is fixed (and the element stands for the value of the variable).
DeltaHasValues ==
  \A k \in DOMAIN f_delta :
    f_delta[k].activated \/ (FindIndex(flt, f_delta[k].var) /\ flt.var_bound[f_delta[k].var])

\* Contribution of index i in the candidate.
Contribution(i) ==
  RunEvaluator(flt, i, IF FilterCandidate[i + 1].activated
                       THEN FilterCandidate[i + 1].value
                       ELSE flt.var_min[i])

RECURSIVE SumOfContributions(_)
SumOfContributions(i) ==
  IF i >= flt.size THEN 0 ELSE Contribution(i) + SumOfContributions(i + 1)

RECURSIVE ProductOfContributions(_)
ProductOfContributions(i) ==
  IF i >= flt.size THEN 1 ELSE Contribution(i) * ProductOfContributions(i + 1)

Contributions == {Contribution(i) : i \in 0..(flt.size - 1)}

\* C6: for a SUM / LE filter with a binary evaluator, after Synchronize(R),
\* Accept(delta, empty deltadelta) computes the sum over all tracked indices
\* of eval(i, value of i in R with delta applied) and returns true iff that
\* sum is <= the max of the objective, whatever Accept calls came before;
\* in the scenario (R = [10,20,30,40], max 100) the delta {var2 := 31} is
\* rejected and the delta {var2 := 29} is accepted.
C6_SumFilterAcceptsIffSumWithinMax ==
  (f_last_call = "Accept" /\ flt.op_enum = "SUM" /\ flt.filter_enum = "LE"
   /\ f_deltadelta = <<>> /\ DeltaHasValues) =>
    /\ f_value = SumOfContributions(0)
    /\ f_accepted <=> (SumOfContributions(0) <= flt.objective_max)
    /\ (IsScenarioFilter(flt) /\ f_reference = CHOOSE a \in FilterReferences(ScenarioFilter) : TRUE) =>
         /\ f_delta = <<ValueElement(2, 31)>> => ~f_accepted
         /\ f_delta = <<ValueElement(2, 29)>> => f_accepted

\* The scenario: the second Accept since Synchronize([10,20,30,40]) rejects
\* the delta {var2 := 31} (sum 101).
C6_Witness ==
  /\ f_last_call = "Accept" /\ IsScenarioFilter(flt) /\ f_deltadelta = <<>>
  /\ f_accepts = 2
  /\ f_delta = <<ValueElement(2, 31)>>
  /\ f_value = 101
  /\ ~f_accepted

\* C7: for a MAX (resp. MIN) filter, after Synchronize(R) and any earlier
\* Accept calls, the value Accept computes for a delta (empty deltadelta)
\* is the maximum (resp. minimum) over all tracked indices of the
\* contributions in R with the delta applied.
C7_MaxMinFilterValueIsExtremum ==
  (f_last_call = "Accept" /\ IsMaxMin(flt) /\ f_deltadelta = <<>> /\ DeltaHasValues) =>
    f_value = IF flt.op_enum = "MAX" THEN SetMax(Contributions) ELSE SetMin(Contributions)

\* C8: for a PROD filter, after Synchronize(R), the value Accept computes
\* for a delta (empty deltadelta) is the product over all tracked indices of
\* the contributions in R with the delta applied.
C8_ProdFilterValueIsProduct ==
  (f_last_call = "Accept" /\ flt.op_enum = "PROD" /\ f_deltadelta = <<>>
   /\ DeltaHasValues) =>
    f_value = ProductOfContributions(0)

\* What a filter freshly synchronized with the reference computes for the
\* last delta by full evaluation.
FullEvaluation == Accept(Synchronize(flt, f_reference), f_delta, <<>>, NoObjective)

\* C9: in a sequence of Accept calls after Synchronize(R) in which each
\* non-empty deltadelta holds exactly the elements of its delta that changed
\* since the delta before, the value computed with a non-empty deltadelta
\* equals the value of a full evaluation of the delta, and the verdict is
\* that of a non-incremental filter.
C9_IncrementalAgreesWithFull ==
  (f_last_call = "Accept" /\ f_protocol /\ f_deltadelta # <<>>) =>
    /\ f_value = FullEvaluation.value
    /\ f_accepted = FullEvaluation.accepted

\* C10: an Accept called with the delta and the deltadelta of the Accept
\* just before it returns the same verdict and leaves the same value in the
\* operation object.
C10_SameCallSameResult ==
  [][(/\ f_last_call = "Accept" /\ f_last_call' = "Accept"
      /\ f_accepts' = f_accepts + 1
      /\ f_delta' = f_delta /\ f_deltadelta' = f_deltadelta)
     => (f_accepted' = f_accepted /\ f_value' = f_value)]_vars

\* ------------------------------------------------------------------------
\* Accept on deltas that carry an objective
\* ------------------------------------------------------------------------

\* Bounds of the objective variable of these filters, and bounds a delta
\* gives for its objective: looser on both sides, equal, tighter from above
\* and tighter from below.
TightObjectiveBounds == <<1, 1>>

DeltaObjectiveBounds == {<<0, 2>>, <<1, 1>>, <<0, 0>>, <<2, 2>>}

DeltaObjectives ==
  {NoObjective} \cup
  {[var |-> v, min |-> b[1], max |-> b[2]] :
     v \in {"objective", "other"}, b \in DeltaObjectiveBounds}

\* One-variable SUM filters with each of the three bounds; the value of
\* such a filter is the value of its variable.
ObjectiveFilters ==
  {MakeFilter("SUM", fe, "shifted", 1, AllFalse(1), Zeros(1),
              TightObjectiveBounds[1], TightObjectiveBounds[2]) :
     fe \in {"LE", "GE", "EQ"}}

InitObjective ==
  /\ flt \in ObjectiveFilters
  /\ FilterFresh
  /\ OperatorIdle
  /\ AuxIdle

\* Accept on a delta with any objective.
FltAcceptObjective ==
  /\ f_last_call # "none"
  /\ f_accepts < MaxAccepts
  /\ f_accepts' = f_accepts + 1
  /\ \E d \in FilterDeltas(flt), objective \in DeltaObjectives :
       \E dd \in {<<>>, d} :
         \E r \in {Accept(flt, d, dd, objective)} :
            /\ flt' = r.f
            /\ f_delta' = d
            /\ f_deltadelta' = dd
            /\ f_value' = r.value
            /\ f_accepted' = r.accepted
            /\ f_objective' = objective
            /\ f_protocol' = (f_protocol /\
                              (dd = <<>> \/ IsIncrementOf(PreviousDelta, d, dd)))
  /\ f_last_call' = "Accept"
  /\ UNCHANGED f_reference
  /\ UNCHANGED <<opvars, auxvars>>

NextObjective == FltSynchronize \/ FltAcceptObjective

SpecObjective == InitObjective /\ [][NextObjective]_vars

\* The bounds Accept is to compare with: those of the objective variable,
\* intersected with those of the delta exactly when the delta carries the
\* objective variable of the filter.
ComparedMin ==
  IF f_objective.var = "objective" /\ f_objective.min > flt.objective_min
  THEN f_objective.min ELSE flt.objective_min

ComparedMax ==
  IF f_objective.var = "objective" /\ f_objective.max < flt.objective_max
  THEN f_objective.max ELSE flt.objective_max

\* C11: Accept compares the candidate value v with [lo, hi], the min and max
\* of the objective variable, tightened to max(lo, delta.ObjectiveMin) and
\* min(hi, delta.ObjectiveMax) exactly when the objective of the delta is the
\* objective variable of the filter; it returns v <= hi under LE, v >= lo
\* under GE and lo <= v <= hi under EQ.
C11_AcceptComparesWithTightenedBounds ==
  f_last_call = "Accept" =>
    /\ flt.filter_enum = "LE" => (f_accepted <=> f_value <= ComparedMax)
    /\ flt.filter_enum = "GE" => (f_accepted <=> f_value >= ComparedMin)
    /\ flt.filter_enum = "EQ" =>
         (f_accepted <=> (ComparedMin <= f_value /\ f_value <= ComparedMax))

\* An LE filter rejects a value within the bounds of its objective variable
\* because the delta carries that variable with a smaller max.
C11_Witness ==
  /\ f_last_call = "Accept" /\ flt.filter_enum = "LE"
  /\ f_objective.var = "objective"
  /\ f_objective.max < f_value /\ f_value <= flt.objective_max
  /\ ~f_accepted

\* ------------------------------------------------------------------------
\* VariableDomainFilter
\* ------------------------------------------------------------------------

\* Domains a variable of the solver can have when the filter is called.
DomainChoices == {{0, 1, 2}, {0, 2}, {1}}

\* The filter has no member; domains stands for the variables the elements
\* of a delta point to (IntVar::Contains).
DomainFilters ==
  {[op_enum |-> "domain", evaluator |-> "none", size |-> 2, domains |-> dom] :
     dom \in [0..1 -> DomainChoices]}

VariableDomainFilterAcceptIgnoringActivation(f, d, dd) ==
  \A i \in 1..Len(d) : d[i].value \in f.domains[d[i].var]

\* VariableDomainFilter::Accept: false at the first activated element whose
\* value its variable does not contain.
VariableDomainFilterAccept(f, d, dd) ==
  \A i \in 1..Len(d) : ~(d[i].activated /\ d[i].value \notin f.domains[d[i].var])

\* Assignments the filter can be synchronized with: solutions.
DomainReferences(f) ==
  {[s \in 1..f.size |-> ValueElement(s - 1, vals[s - 1])] :
     vals \in {v \in [0..(f.size - 1) -> FilterValues] :
                 \A i \in 0..(f.size - 1) : v[i] \in f.domains[i]}}

InitDomain ==
  /\ flt \in DomainFilters
  /\ FilterFresh
  /\ OperatorIdle
  /\ AuxIdle

\* VariableDomainFilter::Synchronize has an empty body.
DomSynchronize ==
  \E a \in DomainReferences(flt) :
    /\ f_last_call' = "Synchronize"
    /\ f_reference' = a
    /\ f_delta' = <<>>
    /\ f_deltadelta' = <<>>
    /\ f_accepted' = FALSE
    /\ UNCHANGED <<flt, f_value, f_accepts, f_protocol, f_objective>>
    /\ UNCHANGED <<opvars, auxvars>>

DomAccept ==
  \E d \in FilterDeltas(flt) :
    \E dd \in {<<>>, d} :
      /\ f_last_call' = "Accept"
      /\ f_delta' = d
      /\ f_deltadelta' = dd
      /\ f_accepted' = VariableDomainFilterAccept(flt, d, dd)
      /\ UNCHANGED <<flt, f_reference, f_value, f_accepts, f_protocol, f_objective>>
      /\ UNCHANGED <<opvars, auxvars>>

NextDomain == DomSynchronize \/ DomAccept

SpecDomain == InitDomain /\ [][NextDomain]_vars

\* An element of the last delta that is activated and whose value is not in
\* the domain of its variable.
HasActivatedValueOutOfDomain ==
  \E k \in DOMAIN f_delta :
    f_delta[k].activated /\ f_delta[k].value \notin flt.domains[f_delta[k].var]

\* C12: VariableDomainFilter.Accept(delta, deltadelta) returns false iff
\* delta contains an activated element whose value is not in the current
\* domain of its variable; deactivated elements never cause a rejection, and
\* the verdict depends only on delta and the domains, whatever Synchronize
\* and Accept calls came before.
C12_RejectsIffActivatedValueOutOfDomain ==
  f_last_call = "Accept" => (~f_accepted <=> HasActivatedValueOutOfDomain)

\* After a Synchronize, a delta is accepted although it holds, next to an
\* activated element, a deactivated element whose stored value is outside
\* the domain of its variable.
C12_Witness ==
  /\ f_last_call = "Accept" /\ f_accepted /\ f_reference # <<>>
  /\ \E k \in DOMAIN f_delta :
       ~f_delta[k].activated /\ f_delta[k].value \notin flt.domains[f_delta[k].var]
  /\ \E k \in DOMAIN f_delta : f_delta[k].activated

\* ------------------------------------------------------------------------
\* Sub-operators of the combinators
\* ------------------------------------------------------------------------

\* Largest number of sub-operators of a CompoundOperator.
MaxOperators == 3

\* Largest number of neighbors a sub-operator has for one reference.
MaxCandidates == 2

\* A sub-operator is any LocalSearchOperator; it is described by the number
\* of neighbors it has for a reference: Start makes all of them available
\* again, MakeNextNeighbor returns them one by one and then false.
SubOperator(candidates) == [candidates |-> candidates, remaining |-> 0]

SubStart(sub) == [sub EXCEPT !.remaining = sub.candidates]

SubMakeNextNeighbor(sub) ==
  IF sub.remaining > 0
  THEN [ok |-> TRUE, sub |-> [sub EXCEPT !.remaining = @ - 1],
        neighbor |-> sub.candidates - sub.remaining + 1]
  ELSE [ok |-> FALSE, sub |-> sub, neighbor |-> 0]

\* ------------------------------------------------------------------------
\* CompoundOperator
\* ------------------------------------------------------------------------

CompoundOperatorNoRestart(size, active_index, operator_index) ==
  IF operator_index < active_index
  THEN size + operator_index - active_index
  ELSE operator_index - active_index

CompoundOperatorRestart(active_index, operator_index) == 0

\* evaluator_->Run(active_operator_, operator_index)
OperatorComparatorEvaluate(c, active_operator, operator_index) ==
  IF c.evaluator = "NoRestart"
  THEN CompoundOperatorNoRestart(c.size, active_operator, operator_index)
  ELSE CompoundOperatorRestart(active_operator, operator_index)

\* OperatorComparator::operator()
OperatorComparator(c, active_operator, lhs, rhs) ==
  \/ OperatorComparatorEvaluate(c, active_operator, lhs)
       < OperatorComparatorEvaluate(c, active_operator, rhs)
  \/ /\ OperatorComparatorEvaluate(c, active_operator, lhs)
         = OperatorComparatorEvaluate(c, active_operator, rhs)
     /\ lhs < rhs

\* std::sort of operator_indices_ under the comparator, a strict total
\* order on the indices: an index goes to the position that is the number of
\* indices before it.
SortOperatorIndices(c, active_operator) ==
  [pos \in 0..(c.size - 1) |->
     CHOOSE i \in 0..(c.size - 1) :
       Cardinality({j \in 0..(c.size - 1) :
                      OperatorComparator(c, active_operator, j, i)}) = pos]

\* The constructor, for a vector of operators without NULL.
MakeCompoundOperator(candidates, evaluator) ==
  [size |-> Len(candidates),
   index |-> 0,
   evaluator |-> evaluator,
   operator_indices |-> [i \in 0..(Len(candidates) - 1) |-> i],
   operators |-> [i \in 0..(Len(candidates) - 1) |-> SubOperator(candidates[i + 1])]]

CompoundStart(c) ==
  IF c.size > 0
  THEN [c EXCEPT
          !.operators = [i \in 0..(c.size - 1) |-> SubStart(c.operators[i])],
          !.operator_indices = SortOperatorIndices(c, c.operator_indices[c.index]),
          !.index = 0]
  ELSE c

\* The do-while loop of MakeNextNeighbor; queried lists the calls made on
\* sub-operators, neighbor is the sub-operator and the number of the
\* neighbor returned.
RECURSIVE CompoundLoop(_, _)
CompoundLoopAfterCallAdvancing(c, queried, i, r) ==
  IF r.ok
  THEN [ok |-> TRUE,
        c |-> [c EXCEPT !.operators[i] = r.sub,
                        !.index = IF c.index + 1 = c.size THEN 0 ELSE c.index + 1],
        queried |-> Append(queried, [op |-> i, ok |-> TRUE]),
        neighbor |-> <<i, r.neighbor>>]
  ELSE IF c.index + 1 = c.size
  THEN [ok |-> FALSE, c |-> [c EXCEPT !.index = 0],
        queried |-> Append(queried, [op |-> i, ok |-> FALSE]),
        neighbor |-> <<>>]
  ELSE CompoundLoop([c EXCEPT !.index = c.index + 1],
                    Append(queried, [op |-> i, ok |-> FALSE]))

CompoundLoopAfterCall(c, queried, i, r) ==
  IF r.ok
  THEN [ok |-> TRUE, c |-> [c EXCEPT !.operators[i] = r.sub],
        queried |-> Append(queried, [op |-> i, ok |-> TRUE]),
        neighbor |-> <<i, r.neighbor>>]
  ELSE IF c.index + 1 = c.size
  THEN [ok |-> FALSE, c |-> [c EXCEPT !.index = 0],
        queried |-> Append(queried, [op |-> i, ok |-> FALSE]),
        neighbor |-> <<>>]
  ELSE CompoundLoop([c EXCEPT !.index = c.index + 1],
                    Append(queried, [op |-> i, ok |-> FALSE]))

CompoundLoop(c, queried) ==
  CompoundLoopAfterCall(c, queried, c.operator_indices[c.index],
                        SubMakeNextNeighbor(c.operators[c.operator_indices[c.index]]))

CompoundMakeNextNeighborWithoutLoop(c) ==
  IF c.size > 0 /\ c.operators[c.operator_indices[c.index]].remaining > 0
  THEN CompoundLoop(c, <<>>)
  ELSE [ok |-> FALSE, c |-> c, queried |-> <<>>, neighbor |-> <<>>]

CompoundMakeNextNeighbor(c) ==
  IF c.size > 0 THEN CompoundLoop(c, <<>>)
  ELSE [ok |-> FALSE, c |-> c, queried |-> <<>>, neighbor |-> <<>>]

\* Sequences of at most MaxOperators neighbor counts, one per sub-operator.
CandidateCounts ==
  UNION {[1..n -> 0..MaxCandidates] : n \in 1..MaxOperators}

CompoundOperators ==
  {MakeCompoundOperator(cc, ev) : cc \in CandidateCounts,
                                  ev \in {"NoRestart", "Restart"}}

\* What the caller has seen: the last call and its result; for the current
\* Start episode, up to the first false, the calls the CompoundOperator made
\* on its sub-operators and the neighbors it returned; whether it has
\* returned false in this episode; the sub-operator that most recently
\* produced a neighbor.
NoCalls ==
  [last_call |-> "none", result |-> FALSE, queried |-> <<>>, emitted |-> <<>>,
   done |-> FALSE, last_success |-> 0 - 1]

InitCompound ==
  /\ cmp \in CompoundOperators
  /\ c_obs = NoCalls
  /\ lim = [limit |-> 0]
  /\ l_obs = <<>>
  /\ drv = [pc |-> "none"]
  /\ ls = [pc |-> "none"]
  /\ st = [pc |-> "none"]
  /\ pe = [pc |-> "none"]
  /\ tl = [pc |-> "none"]
  /\ lk = [pc |-> "none"]
  /\ sg = [pc |-> "idle"]
  /\ csr = [pc |-> "idle"]
  /\ nn = [pc |-> "idle"]
  /\ ps = [pc |-> "idle"]
  /\ OperatorIdle
  /\ FilterIdle

CmpStart ==
  /\ cmp' = CompoundStart(cmp)
  /\ c_obs' = [c_obs EXCEPT !.last_call = "Start", !.result = FALSE,
                            !.queried = <<>>, !.emitted = <<>>, !.done = FALSE]
  /\ UNCHANGED <<lim, l_obs, drv, ls, st, pe, tl, lk, sg, csr, nn, ps, opvars, fltvars>>

CmpMakeNextNeighbor ==
  /\ c_obs.last_call # "none"
  /\ \E r \in {CompoundMakeNextNeighbor(cmp)} :
       /\ cmp' = r.c
       /\ c_obs' = [c_obs EXCEPT
                      !.last_call = "MakeNextNeighbor",
                      !.result = r.ok,
                      !.queried = IF c_obs.done THEN @ ELSE @ \o r.queried,
                      !.emitted = IF c_obs.done \/ ~r.ok THEN @
                                  ELSE Append(@, r.neighbor),
                      !.done = (@ \/ ~r.ok),
                      !.last_success = IF r.ok THEN r.neighbor[1] ELSE @]
  /\ UNCHANGED <<lim, l_obs, drv, ls, st, pe, tl, lk, sg, csr, nn, ps, opvars, fltvars>>

NextCompound == CmpStart \/ CmpMakeNextNeighbor

SpecCompound == InitCompound /\ [][NextCompound]_vars

\* The calls of a drained episode: in the order of operator_indices_, each
\* sub-operator once per neighbor it has and once more, returning false.
RECURSIVE ExpectedDrain(_)
ExpectedDrain(pos) ==
  IF pos >= cmp.size THEN <<>>
  ELSE [k \in 1..(cmp.operators[cmp.operator_indices[pos]].candidates + 1) |->
          [op |-> cmp.operator_indices[pos],
           ok |-> k <= cmp.operators[cmp.operator_indices[pos]].candidates]]
       \o ExpectedDrain(pos + 1)

\* The CompoundOperator of the scenario: [A, B, C] with 1, 2 and 1 neighbors,
\* in the order A, B, C.
InCompoundScenario ==
  /\ cmp.size = 3
  /\ \A i \in 0..2 : cmp.operator_indices[i] = i
  /\ cmp.operators[0].candidates = 1
  /\ cmp.operators[1].candidates = 2
  /\ cmp.operators[2].candidates = 1

\* C13: within one Start episode the sub-operators are queried in the sorted
\* order, each repeatedly until it returns false, and MakeNextNeighbor returns
\* false only after the last sub-operator of that order has returned false;
\* with [A, B, C] producing 1, 2 and 1 candidates the calls return A1, B1,
\* B2, C1 in that order and then false.
C13_DrainsInSortedOrder ==
  c_obs.last_call # "none" =>
    /\ IsPrefix(c_obs.queried, ExpectedDrain(0))
    /\ c_obs.done <=> (c_obs.queried = ExpectedDrain(0))
    /\ (c_obs.last_call = "MakeNextNeighbor" /\ ~c_obs.done) => c_obs.result
    /\ InCompoundScenario =>
         /\ IsPrefix(c_obs.emitted, <<(<<0, 1>>), (<<1, 1>>), (<<1, 2>>), (<<2, 1>>)>>)
         /\ c_obs.done => Len(c_obs.emitted) = 4

\* The scenario, drained: four neighbors, then false.
C13_Witness ==
  /\ InCompoundScenario /\ c_obs.done
  /\ c_obs.last_call = "MakeNextNeighbor" /\ ~c_obs.result
  /\ c_obs.emitted = <<(<<0, 1>>), (<<1, 1>>), (<<1, 2>>), (<<2, 1>>)>>

\* C14: with the no-restart evaluator, Start orders the sub-operators
\* cyclically beginning with the sub-operator that most recently produced a
\* neighbor (after the drained sweep of [A, B, C], whose last neighbor came
\* from C, a re-Start makes the order C, A, B).
C14_StartBeginsWithLastSuccessful ==
  (c_obs.last_call = "Start" /\ cmp.evaluator = "NoRestart"
   /\ c_obs.last_success >= 0) =>
    \A pos \in 0..(cmp.size - 1) :
      cmp.operator_indices[pos] = (c_obs.last_success + pos) % cmp.size

\* Position of a sub-operator in operator_indices_.
PositionOf(i) == CHOOSE pos \in 0..(cmp.size - 1) : cmp.operator_indices[pos] = i

\* C15 as stated: across a Start episode, when a sub-operator that has not
\* returned false is called a second time, every sub-operator (that has a
\* neighbor at all) has been called at least once.
C15_EveryoneOnceBeforeAnyoneTwice ==
  (c_obs.last_call # "none" /\ cmp.evaluator = "NoRestart") =>
    \A p \in DOMAIN c_obs.queried :
      (/\ \E p2 \in 1..(p - 1) : c_obs.queried[p2].op = c_obs.queried[p].op
       /\ \A p2 \in 1..(p - 1) :
            c_obs.queried[p2].op = c_obs.queried[p].op => c_obs.queried[p2].ok)
      => \A j \in 0..(cmp.size - 1) :
           cmp.operators[j].candidates > 0 =>
             \E p2 \in 1..(p - 1) : c_obs.queried[p2].op = j

\* C15, amended: across a Start episode, until the CompoundOperator returns
\* false, a sub-operator is called only after every sub-operator before it
\* in the sorted order has returned false, and is not called again once it
\* has returned false; a sub-operator is thus called as many times as it has
\* neighbors, and once more, before the next one is called at all.
C15_CalledOnlyAfterEarlierOnesReturnedFalse ==
  c_obs.last_call # "none" =>
    \A p \in DOMAIN c_obs.queried :
      /\ \A pos \in 0..(PositionOf(c_obs.queried[p].op) - 1) :
           \E p2 \in 1..(p - 1) :
             c_obs.queried[p2] = [op |-> cmp.operator_indices[pos], ok |-> FALSE]
      /\ \A p2 \in 1..(p - 1) :
           c_obs.queried[p2].op = c_obs.queried[p].op => c_obs.queried[p2].ok

\* The first sub-operator of the order has been called three times (two
\* neighbors, then false) before the second one is called for the first
\* time.
C15_Witness ==
  /\ c_obs.last_call = "MakeNextNeighbor" /\ cmp.evaluator = "NoRestart"
  /\ Len(c_obs.queried) = 4
  /\ \A p \in 1..3 : c_obs.queried[p].op = cmp.operator_indices[0]
  /\ c_obs.queried[1].ok /\ c_obs.queried[2].ok /\ ~c_obs.queried[3].ok
  /\ c_obs.queried[4] = [op |-> cmp.operator_indices[1], ok |-> TRUE]

\* ------------------------------------------------------------------------
\* NeighborhoodLimit
\* ------------------------------------------------------------------------

\* Largest limit of a NeighborhoodLimit.
MaxLimit == 3

\* Calls the caller makes after the limit has been reached.
MaxCallsOverLimit == 2

MakeNeighborhoodLimit(candidates, limit) ==
  [operator |-> SubOperator(candidates), limit |-> limit,
   next_neighborhood_calls |-> 0]

NeighborhoodLimitStart(l) ==
  [l EXCEPT !.next_neighborhood_calls = 0, !.operator = SubStart(l.operator)]

\* What a forwarded call leaves: the result of the wrapped operator and the
\* delta it wrote.  A wrapped operator that returns false may or may not
\* have written to delta (polluted says which).
ForwardedCall(l, r, d, polluted) ==
  [ok |-> r.ok, forwarded |-> TRUE,
   l |-> [l EXCEPT !.next_neighborhood_calls = @ + 1, !.operator = r.sub],
   delta |-> IF r.ok THEN <<r.neighbor>>
             ELSE IF polluted THEN <<0>> ELSE d]

NeighborhoodLimitMakeNextNeighborOneMore(l, d, polluted) ==
  IF l.next_neighborhood_calls > l.limit
  THEN [ok |-> FALSE, forwarded |-> FALSE, l |-> l, delta |-> d]
  ELSE ForwardedCall(l, SubMakeNextNeighbor(l.operator), d, polluted)

NeighborhoodLimitMakeNextNeighbor(l, d, polluted) ==
  IF l.next_neighborhood_calls >= l.limit
  THEN [ok |-> FALSE, forwarded |-> FALSE, l |-> l, delta |-> d]
  ELSE ForwardedCall(l, SubMakeNextNeighbor(l.operator), d, polluted)

NeighborhoodLimits ==
  {MakeNeighborhoodLimit(candidates, limit) :
     candidates \in 0..MaxCandidates, limit \in 1..MaxLimit}

\* Deltas the caller hands to MakeNextNeighbor: cleared, or still holding
\* the neighbor of the call before.
CallerDeltas == {<<>>} \cup {<<k>> : k \in 1..MaxCandidates}

\* What the caller has seen: the last call, its result, whether it reached
\* the wrapped operator, the delta handed in and the delta left; the calls
\* made and the calls that reached the wrapped operator since Start.
NoLimitCalls ==
  [last_call |-> "none", result |-> FALSE, forwarded |-> FALSE,
   delta_in |-> <<>>, delta_out |-> <<>>, calls |-> 0, forwarded_calls |-> 0]

InitLimit ==
  /\ lim \in NeighborhoodLimits
  /\ l_obs = NoLimitCalls
  /\ cmp = [size |-> 0]
  /\ c_obs = <<>>
  /\ drv = [pc |-> "none"]
  /\ ls = [pc |-> "none"]
  /\ st = [pc |-> "none"]
  /\ pe = [pc |-> "none"]
  /\ tl = [pc |-> "none"]
  /\ lk = [pc |-> "none"]
  /\ sg = [pc |-> "idle"]
  /\ csr = [pc |-> "idle"]
  /\ nn = [pc |-> "idle"]
  /\ ps = [pc |-> "idle"]
  /\ OperatorIdle
  /\ FilterIdle

LimStart ==
  /\ lim' = NeighborhoodLimitStart(lim)
  /\ l_obs' = [NoLimitCalls EXCEPT !.last_call = "Start"]
  /\ UNCHANGED <<cmp, c_obs, drv, ls, st, pe, tl, lk, sg, csr, nn, ps, opvars, fltvars>>

LimMakeNextNeighbor ==
  /\ l_obs.last_call # "none"
  /\ l_obs.calls < lim.limit + MaxCallsOverLimit
  /\ \E d \in CallerDeltas, polluted \in BOOLEAN :
       \E r \in {NeighborhoodLimitMakeNextNeighbor(lim, d, polluted)} :
         /\ lim' = r.l
         /\ l_obs' = [last_call |-> "MakeNextNeighbor", result |-> r.ok,
                      forwarded |-> r.forwarded, delta_in |-> d,
                      delta_out |-> r.delta, calls |-> l_obs.calls + 1,
                      forwarded_calls |-> l_obs.forwarded_calls
                                          + (IF r.forwarded THEN 1 ELSE 0)]
  /\ UNCHANGED <<cmp, c_obs, drv, ls, st, pe, tl, lk, sg, csr, nn, ps, opvars, fltvars>>

NextLimit == LimStart \/ LimMakeNextNeighbor

SpecLimit == InitLimit /\ [][NextLimit]_vars

\* C16: between two consecutive Start calls at most limit MakeNextNeighbor
\* calls are forwarded to the wrapped operator, whether they succeed or not;
\* every further call returns false without invoking the wrapped operator
\* and without touching delta; Start resets the count to 0 and starts the
\* wrapped operator.
C16_AtMostLimitCallsForwarded ==
  /\ l_obs.last_call # "none" =>
       /\ l_obs.forwarded_calls <= lim.limit
       /\ l_obs.forwarded_calls = lim.next_neighborhood_calls
  /\ l_obs.last_call = "MakeNextNeighbor" =>
       /\ l_obs.forwarded <=> l_obs.calls <= lim.limit
       /\ ~l_obs.forwarded => (~l_obs.result /\ l_obs.delta_out = l_obs.delta_in)
  /\ l_obs.last_call = "Start" =>
       /\ lim.next_neighborhood_calls = 0
       /\ lim.operator.remaining = lim.operator.candidates

\* A call beyond the limit on a wrapped operator that still has a neighbor:
\* it returns false and leaves the delta of the caller as it was.
C16_Witness ==
  /\ l_obs.last_call = "MakeNextNeighbor"
  /\ l_obs.calls = lim.limit + 1
  /\ lim.operator.remaining > 0
  /\ ~l_obs.result /\ l_obs.delta_in # <<>> /\ l_obs.delta_out = l_obs.delta_in

\* ------------------------------------------------------------------------
\* Properties of SimpleLNS and MoveTowardTargetLS
\* ------------------------------------------------------------------------

\* The fragment of the j-th neighbor (j from 0) of SimpleLNS(k) over n
\* variables.
ExpectedFragment(j, k, n) == {(j + i) % n : i \in 0..(k - 1)}

DeltaVarsOf(e) == {e.delta[x].var : x \in DOMAIN e.delta}

\* C17: SimpleLNS(k) over n variables: in every Start episode
\* MakeNextNeighbor returns true exactly n times and then false; the j-th
\* delta (j = 0..n-1) deactivates exactly the variables j, j+1, ..., j+k-1
\* modulo n and contains nothing else; for k = 2, n = 5 the fragments are
\* {0,1}, {1,2}, {2,3}, {3,4}, {4,0}.
C17_SimpleLNSFragments ==
  (started /\ op.kind = "SimpleLNS") =>
    /\ Len(emitted) <= op.size
    /\ exhausted => Len(emitted) = op.size
    /\ last_call = "MakeNextNeighbor" => (result <=> ~exhausted)
    /\ \A j \in DOMAIN emitted :
         /\ \A x \in DOMAIN emitted[j].delta : ~emitted[j].delta[x].activated
         /\ DeltaVarsOf(emitted[j]) = ExpectedFragment(j - 1, op.number_of_variables, op.size)
         /\ Len(emitted[j].delta) = Cardinality(DeltaVarsOf(emitted[j]))
    /\ (op.size = 5 /\ op.number_of_variables = 2 /\ exhausted) =>
         [j \in 1..5 |-> DeltaVarsOf(emitted[j])]
           = <<{0, 1}, {1, 2}, {2, 3}, {3, 4}, {4, 0}>>

\* The scenario drained in an episode that is not the first one: five
\* neighbors, the last one deactivating variables 4 and 0, then false.
C17_Witness ==
  /\ started /\ op.kind = "SimpleLNS" /\ op.size = 5 /\ op.number_of_variables = 2
  /\ ~first_episode /\ exhausted /\ last_call = "MakeNextNeighbor" /\ ~result
  /\ Len(emitted) = 5
  /\ DeltaVarsOf(emitted[5]) = {4, 0}

\* A reference gives every variable a value.
AllActivated(a) == \A x \in DOMAIN a : a[x].activated

\* Variable i has a reference value that differs from its target value.
DiffersFromTarget(a, i) == a[i + 1].value # op.target[i]

\* The variable a delta of one activated element sets, -1 otherwise.
VarSetToTarget(d) ==
  IF Len(d) = 1 /\ d[1].activated /\ d[1].value = op.target[d[1].var]
  THEN d[1].var ELSE 0 - 1

\* The successful calls of an episode set distinct variables to their
\* targets, one per call; a drained episode has set exactly the variables
\* that differ from their target; the scenario, on a new operator, gives
\* var0 := 1, var2 := 1, false.
MoveTowardTargetEpisode ==
  (started /\ op.kind = "MoveTowardTargetLS" /\ AllActivated(reference)) =>
    /\ \A j \in DOMAIN emitted : VarSetToTarget(emitted[j].delta) >= 0
    /\ \A j1, j2 \in DOMAIN emitted :
         j1 # j2 => VarSetToTarget(emitted[j1].delta) # VarSetToTarget(emitted[j2].delta)
    /\ \A j \in DOMAIN emitted :
         DiffersFromTarget(reference, VarSetToTarget(emitted[j].delta))
    /\ exhausted =>
         {VarSetToTarget(emitted[j].delta) : j \in DOMAIN emitted}
           = {i \in 0..(op.size - 1) : DiffersFromTarget(reference, i)}
    /\ last_call = "MakeNextNeighbor" => (result <=> ~exhausted)
    /\ (first_episode /\ op.size = 4 /\ op.target = ScenarioTarget
        /\ \A x \in DOMAIN reference : reference[x].value = 0) =>
         /\ IsPrefix([j \in DOMAIN emitted |-> emitted[j].delta],
                     <<(<<ValueElement(0, 1)>>), (<<ValueElement(2, 1)>>)>>)
         /\ exhausted => Len(emitted) = 2

\* Start keeps the cursor; a call examines the variables that follow the
\* cursor in cyclic order, at most Size() of them per episode, stops at the
\* first one that differs from its target and sets exactly that one.
MoveTowardTargetStep ==
  op.kind = "MoveTowardTargetLS" =>
    /\ last_call' = "Start" => op'.variable_index = op.variable_index
    /\ (last_call' = "MakeNextNeighbor" /\ AllActivated(reference)) =>
         /\ op'.num_var_since_last_start <= op.size
         /\ op'.variable_index =
              (op.variable_index + op'.num_var_since_last_start
                                 - op.num_var_since_last_start) % op.size
         /\ \A m \in 1..(op'.num_var_since_last_start - op.num_var_since_last_start - 1) :
              ~DiffersFromTarget(reference, (op.variable_index + m) % op.size)
         /\ result' => /\ delta' = <<ValueElement(op'.variable_index,
                                                  op.target[op'.variable_index])>>
                       /\ DiffersFromTarget(reference, op'.variable_index)
         /\ ~result' => /\ op'.num_var_since_last_start = op.size
                        /\ (op.num_var_since_last_start < op.size
                            => ~DiffersFromTarget(reference, op'.variable_index))

\* C18: MoveTowardTargetLS: within one Start episode each variable is
\* examined at most once, in cyclic index order starting just after the
\* variable examined last (Start does not reset the cursor); each successful
\* MakeNextNeighbor emits a delta with exactly one variable set to its
\* target value, and a drained episode succeeds exactly once per variable
\* whose reference value differs from its target; with reference [0,0,0,0]
\* and target [1,0,1,0]: var0 := 1, then var2 := 1, then false.  (For
\* references in which every variable has a value.)
C18_MoveTowardTargetInCyclicOrder ==
  []MoveTowardTargetEpisode /\ [][MoveTowardTargetStep]_vars

\* An episode that starts where the one before stopped: after var0 := 1 of
\* the scenario a new Start on the same reference, then var2 := 1 first.
C18_Witness ==
  /\ op.kind = "MoveTowardTargetLS" /\ op.size = 4 /\ op.target = ScenarioTarget
  /\ ~first_episode /\ AllActivated(reference)
  /\ \A x \in DOMAIN reference : reference[x].value = 0
  /\ Len(emitted) = 1 /\ emitted[1].delta = <<ValueElement(2, 1)>>

\* ------------------------------------------------------------------------
\* DefaultSolutionPool and FindOneNeighbor
\* ------------------------------------------------------------------------

\* Solutions are numbered: 0 is the assignment the search starts from, n is
\* the n-th neighbor the nested solve committed. MaxAccepted caps the number
\* of neighbors the nested solve accepts in a behaviour.
MaxAccepted == 3

NoSolution == 0 - 1

cp_local_search_sync_frequency == 16

DefaultSolutionPool == [reference_assignment_ |-> NoSolution]

Initialize(pool, assignment) ==
  [pool EXCEPT !.reference_assignment_ = assignment]

RegisterNewSolution(pool, assignment) ==
  [pool EXCEPT !.reference_assignment_ = assignment]

GetNextSolution(pool) == pool.reference_assignment_

SyncNeeded(pool, local_assignment) == FALSE

\* Largest number of local filters of a driver, and of calls of Next in a
\* behaviour.
MaxFilters == 2

MaxDriverNexts == 3

\* The FindOneNeighbor after its constructor, over an operator that has
\* `candidates` neighbors per reference and over local filters of which
\* `incremental` tells, in order, which are incremental. pc is the position
\* of Next ("idle" outside a call, "loop" between two iterations of its
\* loop), outcome how the last call ended, log the calls the last step made
\* on the pool, the limit, the operator, the filters and the search, in
\* order, and operator_result what MakeNextNeighbor returned in the last
\* iteration. started_with is the reference the operator was last started
\* with, synchronized_with the reference a filter was last synchronised
\* with; synchronizes and accepts are the calls of Start / Synchronize and
\* of Accept the last step made, in order; nexts counts the calls of Next.
\* limit_reached is what limit_->Check() returned in the last iteration,
\* limit_was_reached whether it returned true in the current call of Next,
\* and mh_vote what AcceptDelta returned in the last iteration.
MakeFindOneNeighbor(candidates, incremental) ==
  [assignment_ |-> 0,
   reference_assignment_ |-> 0,
   pool_ |-> DefaultSolutionPool,
   ls_operator_ |-> SubOperator(candidates),
   started_with |-> NoSolution,
   filters_ |-> [i \in DOMAIN incremental |->
                   [incremental |-> incremental[i],
                    synchronized_with |-> NoSolution]],
   neighbor_found_ |-> FALSE,
   counter |-> 0,
   neighbors_ |-> 0,
   filtered_neighbors_ |-> 0,
   accepted_neighbors_ |-> 0,
   nexts |-> 0,
   pc |-> "idle",
   outcome |-> "none",
   operator_result |-> "not called",
   log |-> <<>>,
   limit_reached |-> FALSE,
   limit_was_reached |-> FALSE,
   mh_vote |-> FALSE,
   synchronizes |-> <<>>,
   accepts |-> <<>>]

\* SynchronizeFilters; the variant synchronises the first filter only.
SynchronizeFiltersFirstOnly(f, assignment) ==
  [f EXCEPT !.filters_ = [i \in DOMAIN @ |->
                            IF i = 1
                            THEN [@[i] EXCEPT !.synchronized_with = assignment]
                            ELSE @[i]],
            !.synchronizes = @ \o [i \in DOMAIN f.filters_ \cap {1} |->
                                     <<i, assignment>>],
            !.log = @ \o <<"SynchronizeFilters">>]

SynchronizeFilters(f, assignment) ==
  [f EXCEPT !.filters_ = [i \in DOMAIN @ |->
                            [@[i] EXCEPT !.synchronized_with = assignment]],
            !.synchronizes = @ \o [i \in DOMAIN f.filters_ |->
                                     <<i, assignment>>],
            !.log = @ \o <<"SynchronizeFilters">>]

SynchronizeAllAfterGetNextSolution(f, next) ==
  SynchronizeFilters(
    [f EXCEPT !.reference_assignment_ = next,
              !.neighbor_found_ = FALSE,
              !.ls_operator_ = SubStart(@),
              !.started_with = next,
              !.synchronizes = @ \o <<<<0, next>>>>,
              !.log = @ \o <<"GetNextSolution", "Init", "Start">>],
    next)

\* SynchronizeAll that leaves neighbor_found_ as it is.
SynchronizeAllKeepingNeighborFound(f) ==
  [SynchronizeAllAfterGetNextSolution(f, GetNextSolution(f.pool_))
     EXCEPT !.neighbor_found_ = f.neighbor_found_]

SynchronizeAll(f) ==
  SynchronizeAllAfterGetNextSolution(f, GetNextSolution(f.pool_))

\* Next up to its loop.
FindOneNeighborEnter(f) ==
  LET called == [f EXCEPT !.pc = "loop", !.outcome = "none", !.counter = 0,
                          !.nexts = @ + 1,
                          !.operator_result = "not called", !.log = <<>>,
                          !.limit_reached = FALSE,
                          !.limit_was_reached = FALSE, !.mh_vote = FALSE,
                          !.synchronizes = <<>>, !.accepts = <<>>]
  IN IF ~f.neighbor_found_
     THEN SynchronizeAll(
            [called EXCEPT !.pool_ = Initialize(@, f.assignment_),
                           !.log = <<"Initialize">>])
     ELSE called

\* The else branch of the loop: the limit is crossed or the operator has no
\* more neighbor. The variant leaves AcceptNeighbor and the pool out.
FindOneNeighborExhaustedWithoutRegistering(f) ==
  IF f.neighbor_found_
  THEN SynchronizeAll(f)
  ELSE [f EXCEPT !.pc = "idle", !.outcome = "failure",
                 !.log = @ \o <<"Fail">>]

FindOneNeighborExhausted(f) ==
  IF f.neighbor_found_
  THEN SynchronizeAll(
         [f EXCEPT !.pool_ = RegisterNewSolution(@, f.assignment_),
                   !.log = @ \o <<"AcceptNeighbor", "RegisterNewSolution">>])
  ELSE [f EXCEPT !.pc = "idle", !.outcome = "failure",
                 !.log = @ \o <<"Fail">>]

\* The periodic synchronisation that opens an iteration of the loop.
FindOneNeighborPeriodicSync(f) ==
  LET counted == [f EXCEPT !.counter = @ + 1, !.log = <<>>,
                           !.mh_vote = FALSE,
                           !.synchronizes = <<>>, !.accepts = <<>>]
  IN IF /\ counted.counter >= cp_local_search_sync_frequency
        /\ SyncNeeded(f.pool_, f.reference_assignment_)
     THEN SynchronizeAll([counted EXCEPT !.counter = 0])
     ELSE counted

\* The loop of FilterAccept from filter i on: votes[i] is what Accept of
\* filter i returns when it is called, called the filters called so far. The
\* variant stops calling filters at the first rejection.
RECURSIVE FilterAcceptLoopStoppingAtRejection(_, _, _, _, _)
FilterAcceptLoopStoppingAtRejection(filters, votes, i, ok, called) ==
  IF i > Len(filters) THEN [ok |-> ok, calls |-> called, votes |-> votes]
  ELSE IF ok
  THEN FilterAcceptLoopStoppingAtRejection(filters, votes, i + 1, votes[i],
                                           Append(called, i))
  ELSE FilterAcceptLoopStoppingAtRejection(filters, votes, i + 1, ok, called)

RECURSIVE FilterAcceptLoop(_, _, _, _, _)
FilterAcceptLoop(filters, votes, i, ok, called) ==
  IF i > Len(filters) THEN [ok |-> ok, calls |-> called, votes |-> votes]
  ELSE IF filters[i].incremental
  THEN FilterAcceptLoop(filters, votes, i + 1, votes[i] /\ ok,
                        Append(called, i))
  ELSE IF ok
  THEN FilterAcceptLoop(filters, votes, i + 1, votes[i], Append(called, i))
  ELSE FilterAcceptLoop(filters, votes, i + 1, ok, called)

FilterAccept(filters, votes) == FilterAcceptLoop(filters, votes, 1, TRUE, <<>>)

\* The calls of Accept of an iteration, as the filters see them: the filter,
\* what it returned, whether the delta is empty, the reference the delta was produced against
\* and the reference the filter was last synchronised with.
AcceptCalls(f, move, empty) ==
  [k \in DOMAIN move.calls |->
     [filter |-> move.calls[k], vote |-> move.votes[move.calls[k]],
      empty |-> empty,
      produced_against |-> f.started_with,
      synchronized_with |-> f.filters_[move.calls[k]].synchronized_with]]

\* The iteration once the operator has produced a neighbor: mh_filter is
\* AcceptDelta of the parent search, move the outcome of FilterAccept, and
\* solved SolveAndCommit. The first variant registers the neighbor with the
\* pool as soon as the nested solve commits it; the second counts a neighbor
\* as filtered when the local filters accept it, whatever AcceptDelta said.
FindOneNeighborAfterFiltersRegistering(f, mh_filter, move, empty, solved) ==
  LET filtered ==
        [f EXCEPT !.neighbors_ = @ + 1,
                  !.accepts = AcceptCalls(f, move, empty),
                  !.mh_vote = mh_filter,
                  !.log = @ \o <<"AcceptDelta", "FilterAccept">>]
  IN IF ~(mh_filter /\ move.ok) THEN filtered
     ELSE IF ~solved
     THEN [filtered EXCEPT !.filtered_neighbors_ = @ + 1,
                           !.log = @ \o <<"SolveAndCommit">>]
     ELSE [filtered EXCEPT !.filtered_neighbors_ = @ + 1,
                           !.accepted_neighbors_ = @ + 1,
                           !.assignment_ = f.accepted_neighbors_ + 1,
                           !.pool_ = RegisterNewSolution(
                                       @, f.accepted_neighbors_ + 1),
                           !.neighbor_found_ = TRUE,
                           !.pc = "idle",
                           !.outcome = "neighbor",
                           !.log = @ \o <<"SolveAndCommit", "Store",
                                          "RegisterNewSolution">>]

FindOneNeighborAfterFiltersCountingLocalOnly(f, mh_filter, move, empty, solved) ==
  LET filtered ==
        [f EXCEPT !.neighbors_ = @ + 1,
                  !.filtered_neighbors_ = IF move.ok THEN @ + 1 ELSE @,
                  !.accepts = AcceptCalls(f, move, empty),
                  !.mh_vote = mh_filter,
                  !.log = @ \o <<"AcceptDelta", "FilterAccept">>]
  IN IF ~(mh_filter /\ move.ok) THEN filtered
     ELSE IF ~solved
     THEN [filtered EXCEPT !.log = @ \o <<"SolveAndCommit">>]
     ELSE [filtered EXCEPT !.accepted_neighbors_ = @ + 1,
                           !.assignment_ = f.accepted_neighbors_ + 1,
                           !.neighbor_found_ = TRUE,
                           !.pc = "idle",
                           !.outcome = "neighbor",
                           !.log = @ \o <<"SolveAndCommit", "Store">>]

FindOneNeighborAfterFilters(f, mh_filter, move, empty, solved) ==
  LET filtered ==
        [f EXCEPT !.neighbors_ = @ + 1,
                  !.accepts = AcceptCalls(f, move, empty),
                  !.mh_vote = mh_filter,
                  !.log = @ \o <<"AcceptDelta", "FilterAccept">>]
  IN IF ~(mh_filter /\ move.ok) THEN filtered
     ELSE IF ~solved
     THEN [filtered EXCEPT !.filtered_neighbors_ = @ + 1,
                           !.log = @ \o <<"SolveAndCommit">>]
     ELSE [filtered EXCEPT !.filtered_neighbors_ = @ + 1,
                           !.accepted_neighbors_ = @ + 1,
                           !.assignment_ = f.accepted_neighbors_ + 1,
                           !.neighbor_found_ = TRUE,
                           !.pc = "idle",
                           !.outcome = "neighbor",
                           !.log = @ \o <<"SolveAndCommit", "Store">>]

\* The iteration after the periodic synchronisation. limit_crossed is
\* limit_->Check() and r the outcome of MakeNextNeighbor, which is called
\* only when the limit is not crossed. The variant calls the operator first
\* and drops its neighbor when the limit is crossed.
FindOneNeighborAfterSyncCallingOperatorFirst(f, limit_crossed, r, mh_filter, votes, empty, solved) ==
  LET made == [f EXCEPT !.ls_operator_ = r.sub,
                        !.operator_result = IF r.ok THEN "true" ELSE "false",
                        !.limit_reached = limit_crossed,
                        !.limit_was_reached = @ \/ limit_crossed,
                        !.log = @ \o <<"MakeNextNeighbor">>]
  IN IF limit_crossed \/ ~r.ok
     THEN FindOneNeighborExhausted(made)
     ELSE FindOneNeighborAfterFilters(made, mh_filter,
                                      FilterAccept(f.filters_, votes),
                                      empty, solved)

FindOneNeighborAfterSync(f, limit_crossed, r, mh_filter, votes, empty, solved) ==
  IF limit_crossed
  THEN FindOneNeighborExhausted(
         [f EXCEPT !.operator_result = "not called",
                   !.limit_reached = TRUE, !.limit_was_reached = TRUE])
  ELSE IF ~r.ok
  THEN FindOneNeighborExhausted(
         [f EXCEPT !.ls_operator_ = r.sub, !.operator_result = "false",
                   !.limit_reached = FALSE,
                   !.log = @ \o <<"MakeNextNeighbor">>])
  ELSE FindOneNeighborAfterFilters(
         [f EXCEPT !.ls_operator_ = r.sub, !.operator_result = "true",
                   !.limit_reached = FALSE,
                   !.log = @ \o <<"MakeNextNeighbor">>],
         mh_filter, FilterAccept(f.filters_, votes), empty, solved)

IncrementalChoices ==
  UNION {[1..n -> BOOLEAN] : n \in 0..MaxFilters}

FindOneNeighbors ==
  {MakeFindOneNeighbor(n, incremental) :
     n \in 0..MaxCandidates, incremental \in IncrementalChoices}

InitDriver ==
  /\ drv \in FindOneNeighbors
  /\ cmp = [size |-> 0]
  /\ c_obs = <<>>
  /\ lim = [limit |-> 0]
  /\ l_obs = <<>>
  /\ ls = [pc |-> "none"]
  /\ st = [pc |-> "none"]
  /\ pe = [pc |-> "none"]
  /\ tl = [pc |-> "none"]
  /\ lk = [pc |-> "none"]
  /\ sg = [pc |-> "idle"]
  /\ csr = [pc |-> "idle"]
  /\ nn = [pc |-> "idle"]
  /\ ps = [pc |-> "idle"]
  /\ OperatorIdle
  /\ FilterIdle

\* A call of Next, up to the loop.
DrvNext ==
  /\ drv.pc = "idle"
  /\ drv.nexts < MaxDriverNexts
  /\ drv' = FindOneNeighborEnter(drv)
  /\ UNCHANGED <<cmp, c_obs, lim, l_obs, ls, st, pe, tl, lk, sg, csr, nn, ps, opvars, fltvars>>

\* One iteration of the loop of Next. The nested solve commits at most
\* MaxAccepted neighbors.
DrvIterate ==
  /\ drv.pc = "loop"
  /\ \E limit_crossed \in BOOLEAN, mh_filter \in BOOLEAN,
        votes \in [DOMAIN drv.filters_ -> BOOLEAN], empty \in BOOLEAN,
        solved \in IF drv.accepted_neighbors_ < MaxAccepted
                   THEN BOOLEAN ELSE {FALSE} :
       \E synced \in {FindOneNeighborPeriodicSync(drv)} :
         drv' = FindOneNeighborAfterSync(
                  synced, limit_crossed,
                  SubMakeNextNeighbor(synced.ls_operator_),
                  mh_filter, votes, empty, solved)
  /\ UNCHANGED <<cmp, c_obs, lim, l_obs, ls, st, pe, tl, lk, sg, csr, nn, ps, opvars, fltvars>>

NextDriver == DrvNext \/ DrvIterate

SpecDriver == InitDriver /\ [][NextDriver]_vars

\* What a step of Next leaves in the log when the nested solve commits a
\* neighbor, and when the else branch re-synchronises.
LogOfCommittedNeighbor ==
  <<"MakeNextNeighbor", "AcceptDelta", "FilterAccept", "SolveAndCommit",
    "Store">>

LogOfResynchronisation ==
  <<"AcceptNeighbor", "RegisterNewSolution", "GetNextSolution", "Init",
    "Start", "SynchronizeFilters">>

\* C19 as stated: when Next returns a neighbor, the solution is stored into
\* assignment, neighbor_found is marked and the pool has been notified of
\* the new solution (RegisterNewSolution) before the return.
C19_PoolNotifiedBeforeReturn ==
  drv.outcome = "neighbor" =>
    /\ drv.assignment_ = drv.accepted_neighbors_
    /\ drv.neighbor_found_
    /\ "RegisterNewSolution" \in Range(drv.log)
    /\ drv.pool_.reference_assignment_ = drv.assignment_

\* C19 as the code has it: when Next returns a neighbor, the solution is
\* stored into assignment and neighbor_found is marked, and the pool has not
\* been notified: it still holds an older solution. RegisterNewSolution is
\* called only by an iteration of a later call of Next that takes the else
\* branch (limit crossed or operator exhausted) while neighbor_found is
\* true, and it hands the pool the stored assignment.
C19_StoredAndMarkedPoolNotifiedLater ==
  /\ [](drv.outcome = "neighbor" =>
          /\ drv.assignment_ = drv.accepted_neighbors_
          /\ drv.neighbor_found_
          /\ drv.log = LogOfCommittedNeighbor
          /\ drv.pool_.reference_assignment_ # drv.assignment_)
  /\ [][("RegisterNewSolution" \in Range(drv'.log)) =>
          /\ drv.pc = "loop" /\ drv.neighbor_found_
          /\ drv'.operator_result # "true"
          /\ drv'.outcome = "none"
          /\ drv'.pool_.reference_assignment_ = drv.assignment_]_vars

\* The second neighbor is returned while the pool holds the first one.
C19_Witness ==
  /\ drv.outcome = "neighbor"
  /\ drv.assignment_ = 2
  /\ drv.pool_.reference_assignment_ = 1

\* C20: an iteration of Next in which MakeNextNeighbor returns false, with
\* neighbor_found true, calls AcceptNeighbor, registers assignment with the
\* pool, takes the pool's next solution as the new reference, restarts the
\* operator, re-synchronises the filters, in that order, and stays in the
\* loop; with neighbor_found false it ends the call in failure. Next never
\* ends in failure with neighbor_found true.
C20_ExhaustedOperator ==
  /\ [][(drv.pc = "loop" /\ drv'.operator_result = "false") =>
          IF drv.neighbor_found_
          THEN /\ drv'.log = <<"MakeNextNeighbor">> \o LogOfResynchronisation
               /\ drv'.pool_.reference_assignment_ = drv.assignment_
               /\ drv'.reference_assignment_ = GetNextSolution(drv'.pool_)
               /\ drv'.reference_assignment_ = drv.assignment_
               /\ drv'.ls_operator_.remaining = drv.ls_operator_.candidates
               /\ ~drv'.neighbor_found_
               /\ drv'.pc = "loop" /\ drv'.outcome = "none"
          ELSE /\ drv'.pc = "idle" /\ drv'.outcome = "failure"
               /\ drv'.log = <<"MakeNextNeighbor", "Fail">>
               /\ drv'.reference_assignment_ = drv.reference_assignment_]_vars
  /\ [](drv.outcome = "failure" => ~drv.neighbor_found_)

\* The operator ran out after the second neighbor was found, and the search
\* went on from that neighbor.
C20_Witness ==
  /\ drv.pc = "loop"
  /\ drv.operator_result = "false"
  /\ drv.log = <<"MakeNextNeighbor">> \o LogOfResynchronisation
  /\ drv.reference_assignment_ = 2
  /\ drv.ls_operator_.candidates > 0

\* The calls a reference refresh makes on the operator (index 0) and on the
\* filters, in order, each with the refreshed reference.
CallsOfRefresh(f) ==
  <<<<0, f.reference_assignment_>>>>
    \o [i \in DOMAIN f.filters_ |-> <<i, f.reference_assignment_>>]

Refreshed(f) == "GetNextSolution" \in Range(f.log)

\* C21: a step that refreshes the reference (SynchronizeAll) calls Start of
\* the operator and then Synchronize of each filter exactly once, with the
\* refreshed reference, and a step that does not refresh calls neither; at
\* every Accept the filter has been synchronised, and the reference the
\* delta was produced against is the reference the filter was last
\* synchronised with, which is the reference of the driver; the reference
\* changes only in a step that refreshes, never when a neighbor is committed.
C21_SynchronizedBeforeAccept ==
  /\ [](/\ drv.synchronizes = IF Refreshed(drv) THEN CallsOfRefresh(drv)
                              ELSE <<>>
        /\ \A k \in DOMAIN drv.accepts :
             /\ drv.accepts[k].synchronized_with # NoSolution
             /\ drv.accepts[k].synchronized_with
                  = drv.accepts[k].produced_against
             /\ drv.accepts[k].synchronized_with = drv.reference_assignment_)
  /\ [][/\ (drv'.reference_assignment_ # drv.reference_assignment_
              => Refreshed(drv'))
        /\ (drv'.outcome = "neighbor"
              => /\ ~Refreshed(drv')
                 /\ drv'.reference_assignment_ = drv.reference_assignment_
                 /\ drv'.filters_ = drv.filters_)]_vars

\* Two filters judge a neighbor of the first committed neighbor.
C21_Witness ==
  /\ Len(drv.accepts) = 2
  /\ drv.reference_assignment_ = 1
  /\ \A k \in DOMAIN drv.accepts : drv.accepts[k].synchronized_with = 1

\* The filters whose Accept the last iteration called, in call order.
CalledFilters == [k \in DOMAIN drv.accepts |-> drv.accepts[k].filter]

\* C22: for a neighbor the operator produced, Accept is called on filters in
\* their order, each at most once, and on every incremental filter, whatever
\* AcceptDelta and the earlier filters returned and whether or not the delta
\* is empty; a filter that is not called is non-incremental and comes after
\* a filter that rejected; the nested solve is attempted exactly when
\* AcceptDelta and every filter accepted.
C22_IncrementalFiltersSeeEveryNeighbor ==
  drv.operator_result = "true" =>
    /\ \A j, k \in DOMAIN drv.accepts : j < k => CalledFilters[j] < CalledFilters[k]
    /\ \A i \in DOMAIN drv.filters_ :
         \/ i \in Range(CalledFilters)
         \/ /\ ~drv.filters_[i].incremental
            /\ \E k \in DOMAIN drv.accepts :
                 drv.accepts[k].filter < i /\ ~drv.accepts[k].vote
    /\ ("SolveAndCommit" \in Range(drv.log))
         <=> /\ drv.mh_vote
             /\ Len(drv.accepts) = Len(drv.filters_)
             /\ \A k \in DOMAIN drv.accepts : drv.accepts[k].vote

\* AcceptDelta and the first, non-incremental filter rejected an empty delta
\* and the second, incremental filter was called all the same.
C22_Witness ==
  /\ drv.operator_result = "true"
  /\ ~drv.mh_vote
  /\ Len(drv.filters_) = 2
  /\ ~drv.filters_[1].incremental /\ drv.filters_[2].incremental
  /\ Len(drv.accepts) = 2
  /\ ~drv.accepts[1].vote /\ drv.accepts[2].empty

\* C23 as stated: once the limit has reported reached in a call of Next,
\* that call produces no further neighbor.
C23_NoNeighborAfterLimitInSameCall ==
  ~(drv.limit_was_reached /\ ~drv.limit_reached
      /\ drv.operator_result = "true")

\* C23 as the code has it: in an iteration in which the limit reports
\* reached, MakeNextNeighbor is not called, no filter sees a delta and no
\* neighbor is committed; with neighbor_found false the call ends in failure
\* at once, and with neighbor_found true the driver registers the stored
\* neighbor, refreshes the reference (which re-initialises the limit) and
\* stays in the loop, where the same call may produce further neighbors.
C23_LimitSkipsOperator ==
  /\ [](drv.limit_reached =>
          /\ "MakeNextNeighbor" \notin Range(drv.log)
          /\ drv.operator_result = "not called"
          /\ drv.accepts = <<>>
          /\ drv.outcome # "neighbor")
  /\ [][(drv.pc = "loop" /\ drv'.limit_reached) =>
          /\ drv'.neighbors_ = drv.neighbors_
          /\ drv'.accepted_neighbors_ = drv.accepted_neighbors_
          /\ drv'.assignment_ = drv.assignment_
          /\ IF drv.neighbor_found_
             THEN /\ drv'.pc = "loop"
                  /\ drv'.log = LogOfResynchronisation
                  /\ drv'.ls_operator_.remaining
                       = drv.ls_operator_.candidates
             ELSE /\ drv'.outcome = "failure"
                  /\ drv'.ls_operator_ = drv.ls_operator_]_vars

\* The limit was reached in this call, the driver re-synchronised, and the
\* same call committed another neighbor.
C23_Witness ==
  /\ drv.limit_was_reached
  /\ ~drv.limit_reached
  /\ drv.outcome = "neighbor"
  /\ drv.assignment_ = 2

\* Whether AcceptDelta and every filter accepted the neighbor of the step
\* that led to f.
AllAccepted(f) ==
  /\ f.mh_vote
  /\ Len(f.accepts) = Len(f.filters_)
  /\ \A k \in DOMAIN f.accepts : f.accepts[k].vote

\* C24: accepted_neighbors <= filtered_neighbors <= neighbors in every
\* state; an iteration adds one to neighbors exactly when MakeNextNeighbor
\* returned true, one to filtered_neighbors exactly when moreover
\* AcceptDelta and all the filters accepted, one to accepted_neighbors
\* exactly when moreover the nested solve succeeded, and nothing otherwise;
\* entering Next changes no counter.
C24_CountersOrdered ==
  /\ [](/\ drv.accepted_neighbors_ <= drv.filtered_neighbors_
        /\ drv.filtered_neighbors_ <= drv.neighbors_)
  /\ [][/\ drv'.neighbors_ - drv.neighbors_
             = IF drv.pc = "loop" /\ drv'.operator_result = "true"
               THEN 1 ELSE 0
        /\ drv'.filtered_neighbors_ - drv.filtered_neighbors_
             = IF /\ drv.pc = "loop" /\ drv'.operator_result = "true"
                  /\ AllAccepted(drv')
               THEN 1 ELSE 0
        /\ drv'.accepted_neighbors_ - drv.accepted_neighbors_
             = IF /\ drv.pc = "loop" /\ drv'.operator_result = "true"
                  /\ AllAccepted(drv') /\ drv'.outcome = "neighbor"
               THEN 1 ELSE 0]_vars

\* Three neighbors produced, two of them accepted by the filters, one of
\* these committed by the nested solve.
C24_Witness ==
  /\ drv.neighbors_ = 3
  /\ drv.filtered_neighbors_ = 2
  /\ drv.accepted_neighbors_ = 1
  /\ Len(drv.filters_) = 2

\* ------------------------------------------------------------------------
\* NestedSolveDecision and LocalSearch
\* ------------------------------------------------------------------------

\* Largest number of balancing decisions open at a time.
MaxBalancing == 2

kLocalSearchBalancedTreeDepth == 32

NestedSolveDecision(restore) ==
  [restore_ |-> restore, state_ |-> "DECISION_PENDING"]

\* Apply: solved is what the nested Solve (restore mode) or SolveAndCommit
\* (commit mode) returns. The variant tags a failed solve of the commit mode
\* as found.
NestedSolveDecisionApplyCommitAlwaysFound(d, solved) ==
  IF d.restore_
  THEN IF solved THEN [d EXCEPT !.state_ = "DECISION_FOUND"]
       ELSE [d EXCEPT !.state_ = "DECISION_FAILED"]
  ELSE [d EXCEPT !.state_ = "DECISION_FOUND"]

NestedSolveDecisionApply(d, solved) ==
  IF d.restore_
  THEN IF solved THEN [d EXCEPT !.state_ = "DECISION_FOUND"]
       ELSE [d EXCEPT !.state_ = "DECISION_FAILED"]
  ELSE IF solved THEN [d EXCEPT !.state_ = "DECISION_FOUND"]
       ELSE [d EXCEPT !.state_ = "DECISION_FAILED"]

NestedSolveDecisionRefute(d) == d

\* The LocalSearch after its constructor (PushFirstSolutionDecision, then
\* PushLocalSearchDecision), with the solver above it: pc is "next" when the
\* solver is about to call Next, "apply" when Next has returned a decision
\* the solver is about to apply, "failed" when Next has failed and
\* "solution" when Next has returned NULL; result is what the last call of
\* Next did, returned the decision it returned (an index of
\* nested_decisions_, or 0 - 1 for the balancing decision), last the last
\* operation, solved what the last nested solve returned, signalled what
\* LocalOptimumReached returned in the last call of Next that asked, and
\* halted whether a call of Next has stopped the search. stack holds, for
\* each decision applied and not yet refuted, the decision and the
\* reversible state (has_started_, the state_ of the decisions) of the
\* time it was applied.
MakeLocalSearch(restores) ==
  [nested_decisions_ |-> [i \in 0..(Len(restores) - 1) |->
                            NestedSolveDecision(restores[i + 1])],
   nested_decision_index_ |-> 0,
   has_started_ |-> FALSE,
   pc |-> "next",
   result |-> "none",
   returned |-> 0 - 1,
   last |-> "none",
   solved |-> FALSE,
   signalled |-> FALSE,
   halted |-> FALSE,
   stack |-> <<>>]

\* The switch of Next on the state of the current decision: local_optimum
\* is LocalOptimumReached and depth the SearchDepth compared with
\* kLocalSearchBalancedTreeDepth. The variant stops the search on every
\* failed decision.
LocalSearchNextSwitchAlwaysStopping(l, local_optimum, depth) ==
  LET state == l.nested_decisions_[l.nested_decision_index_].state_
      size == Cardinality(DOMAIN l.nested_decisions_)
  IN CASE state = "DECISION_FAILED" ->
            [l EXCEPT !.nested_decision_index_ = 0 - 1,
                      !.halted = TRUE,
                      !.signalled = local_optimum,
                      !.pc = "failed", !.result = "fail"]
       [] state = "DECISION_PENDING" ->
            IF depth < kLocalSearchBalancedTreeDepth
            THEN [l EXCEPT !.pc = "apply", !.result = "balancing",
                           !.returned = 0 - 1]
            ELSE IF depth > kLocalSearchBalancedTreeDepth
            THEN [l EXCEPT !.pc = "failed", !.result = "fail"]
            ELSE [l EXCEPT !.pc = "apply", !.result = "decision",
                           !.returned = l.nested_decision_index_]
       [] state = "DECISION_FOUND" ->
            [l EXCEPT !.nested_decision_index_ =
                         IF @ + 1 < size THEN @ + 1 ELSE @,
                      !.pc = "solution", !.result = "null"]

LocalSearchNextSwitch(l, local_optimum, depth) ==
  LET state == l.nested_decisions_[l.nested_decision_index_].state_
      size == Cardinality(DOMAIN l.nested_decisions_)
  IN CASE state = "DECISION_FAILED" ->
            [l EXCEPT !.nested_decision_index_ =
                         IF ~local_optimum THEN 0 - 1 ELSE @,
                      !.halted = (@ \/ ~local_optimum),
                      !.signalled = local_optimum,
                      !.pc = "failed", !.result = "fail"]
       [] state = "DECISION_PENDING" ->
            IF depth < kLocalSearchBalancedTreeDepth
            THEN [l EXCEPT !.pc = "apply", !.result = "balancing",
                           !.returned = 0 - 1]
            ELSE IF depth > kLocalSearchBalancedTreeDepth
            THEN [l EXCEPT !.pc = "failed", !.result = "fail"]
            ELSE [l EXCEPT !.pc = "apply", !.result = "decision",
                           !.returned = l.nested_decision_index_]
       [] state = "DECISION_FOUND" ->
            [l EXCEPT !.nested_decision_index_ =
                         IF @ + 1 < size THEN @ + 1 ELSE @,
                      !.pc = "solution", !.result = "null"]

LocalSearchNext(l, local_optimum, depth) ==
  LET called == [l EXCEPT !.last = "Next", !.signalled = FALSE]
  IN IF ~l.has_started_
     THEN LocalSearchNextSwitch(
            [called EXCEPT !.nested_decision_index_ = 0,
                           !.has_started_ = TRUE],
            local_optimum, depth)
     ELSE IF l.nested_decision_index_ < 0
     THEN [called EXCEPT !.pc = "failed", !.result = "fail"]
     ELSE LocalSearchNextSwitch(called, local_optimum, depth)

\* The reversible part of the state, as the trail of the solver restores it.
Reversible(l) ==
  [has_started_ |-> l.has_started_,
   states |-> [i \in DOMAIN l.nested_decisions_ |->
                 l.nested_decisions_[i].state_]]

Restore(l, saved) ==
  [l EXCEPT !.has_started_ = saved.has_started_,
            !.nested_decisions_ =
               [i \in DOMAIN @ |-> [@[i] EXCEPT !.state_ = saved.states[i]]]]

\* The solver applies the decision Next returned: the left branch.
SolverApply(l, solved) ==
  LET pushed == [l EXCEPT !.stack = Append(@, [decision |-> l.returned,
                                               saved |-> Reversible(l)]),
                          !.pc = "next", !.last = "Apply",
                          !.solved = solved]
  IN IF l.returned < 0 THEN pushed
     ELSE [pushed EXCEPT !.nested_decisions_[l.returned] =
                            NestedSolveDecisionApply(@, solved)]

\* The solver backtracks to the last decision it applied, undoes what was
\* saved since and refutes the decision: the right branch.
SolverBacktrack(l) ==
  LET top == l.stack[Len(l.stack)]
      restored == [Restore(l, top.saved) EXCEPT
                     !.stack = SubSeq(@, 1, Len(@) - 1),
                     !.pc = "next", !.last = "Refute"]
  IN IF top.decision < 0 THEN restored
     ELSE [restored EXCEPT !.nested_decisions_[top.decision] =
                              NestedSolveDecisionRefute(@)]

\* The solver backtracks above the first call of Next and comes back to the
\* decision builder.
SolverBacktrackAboveLocalSearch(l) ==
  [l EXCEPT !.has_started_ = FALSE, !.pc = "next", !.last = "Restart"]

LocalSearches == {MakeLocalSearch(<<r0, r1>>) : r0 \in BOOLEAN, r1 \in BOOLEAN}

\* The search depths Next can see, with at most MaxBalancing balancing
\* decisions open.
SearchDepths(l) ==
  {kLocalSearchBalancedTreeDepth, kLocalSearchBalancedTreeDepth + 1}
    \cup (IF Cardinality({k \in DOMAIN l.stack : l.stack[k].decision < 0})
               < MaxBalancing
          THEN {kLocalSearchBalancedTreeDepth - 1} ELSE {})

InitLocalSearch ==
  /\ ls \in LocalSearches
  /\ cmp = [size |-> 0]
  /\ c_obs = <<>>
  /\ lim = [limit |-> 0]
  /\ l_obs = <<>>
  /\ drv = [pc |-> "none"]
  /\ st = [pc |-> "none"]
  /\ pe = [pc |-> "none"]
  /\ tl = [pc |-> "none"]
  /\ lk = [pc |-> "none"]
  /\ sg = [pc |-> "idle"]
  /\ csr = [pc |-> "idle"]
  /\ nn = [pc |-> "idle"]
  /\ ps = [pc |-> "idle"]
  /\ OperatorIdle
  /\ FilterIdle

LsNext ==
  /\ ls.pc = "next"
  /\ \E local_optimum \in BOOLEAN, depth \in SearchDepths(ls) :
       ls' = LocalSearchNext(ls, local_optimum, depth)
  /\ UNCHANGED <<cmp, c_obs, lim, l_obs, drv, st, pe, tl, lk, sg, csr, nn, ps, opvars, fltvars>>

LsApply ==
  /\ ls.pc = "apply"
  /\ \E solved \in BOOLEAN : ls' = SolverApply(ls, solved)
  /\ UNCHANGED <<cmp, c_obs, lim, l_obs, drv, st, pe, tl, lk, sg, csr, nn, ps, opvars, fltvars>>

LsBacktrack ==
  /\ ls.pc \in {"failed", "solution"}
  /\ ls.stack # <<>>
  /\ ls' = SolverBacktrack(ls)
  /\ UNCHANGED <<cmp, c_obs, lim, l_obs, drv, st, pe, tl, lk, sg, csr, nn, ps, opvars, fltvars>>

LsBacktrackAbove ==
  /\ ls.pc \in {"failed", "solution"}
  /\ ls.stack = <<>>
  /\ ls' = SolverBacktrackAboveLocalSearch(ls)
  /\ UNCHANGED <<cmp, c_obs, lim, l_obs, drv, st, pe, tl, lk, sg, csr, nn, ps, opvars, fltvars>>

NextLocalSearch == LsNext \/ LsApply \/ LsBacktrack \/ LsBacktrackAbove

SpecLocalSearch == InitLocalSearch /\ [][NextLocalSearch]_vars

StatesOf(l) == Reversible(l).states

\* C25: a NestedSolveDecision is DECISION_PENDING as long as nothing has
\* been applied; Apply acts on a pending decision and leaves it
\* DECISION_FOUND when the nested solve succeeded and DECISION_FAILED when it
\* did not, whatever restore_ is, and touches no other decision; a decision
\* that is found or failed changes state only when the solver backtracks
\* over its Apply, and then gets back the state saved when it was applied;
\* Refute adds nothing to that restoration.
C25_ThreeStateLatch ==
  /\ [](~ls.has_started_ =>
          \A i \in DOMAIN ls.nested_decisions_ :
            ls.nested_decisions_[i].state_ = "DECISION_PENDING")
  /\ [][/\ (ls.pc = "apply" /\ ls.returned >= 0) =>
             /\ ls.nested_decisions_[ls.returned].state_ = "DECISION_PENDING"
             /\ ls'.nested_decisions_[ls.returned].state_
                  = IF ls'.solved THEN "DECISION_FOUND" ELSE "DECISION_FAILED"
             /\ \A i \in DOMAIN ls.nested_decisions_ \ {ls.returned} :
                  ls'.nested_decisions_[i] = ls.nested_decisions_[i]
        /\ \A i \in DOMAIN ls.nested_decisions_ :
             /\ ls'.nested_decisions_[i].restore_
                  = ls.nested_decisions_[i].restore_
             /\ (/\ ls.nested_decisions_[i].state_ # "DECISION_PENDING"
                 /\ ls'.nested_decisions_[i].state_
                      # ls.nested_decisions_[i].state_)
                  => /\ ls'.last = "Refute"
                     /\ ls'.nested_decisions_[i].state_ = "DECISION_PENDING"
        /\ (ls.pc \in {"failed", "solution"} /\ ls.stack # <<>>) =>
             StatesOf(ls') = ls.stack[Len(ls.stack)].saved.states]_vars

\* The local search decision, in restore mode, has just been applied and its
\* nested solve failed.
C25_Witness ==
  /\ ls.last = "Apply"
  /\ ls.returned = 1
  /\ ls.nested_decisions_[1].restore_
  /\ ~ls.solved
  /\ ls.nested_decisions_[1].state_ = "DECISION_FAILED"

\* Whether the call of Next about to be made finds its current decision
\* failed.
AtFailedDecision ==
  /\ ls.pc = "next"
  /\ ls.has_started_
  /\ ls.nested_decision_index_ >= 0
  /\ ls.nested_decisions_[ls.nested_decision_index_].state_ = "DECISION_FAILED"

\* A call of Next on a failed decision fails; it sets the index to -1 when
\* no local optimum is signalled and leaves the index alone when one is.
FailedDecisionStep ==
  AtFailedDecision =>
    /\ ls'.result = "fail"
    /\ IF ls'.signalled
       THEN ls'.nested_decision_index_ = ls.nested_decision_index_
       ELSE ls'.nested_decision_index_ < 0

\* C26 as stated: besides the above, once a call of Next has stopped the
\* search, no later call of Next does anything but fail.
C26_HaltedForGood ==
  /\ [][FailedDecisionStep]_vars
  /\ [](ls.halted /\ ls.last = "Next" => ls.result = "fail")

\* C26 as the code has it: besides the above, a call of Next made with the
\* index at -1 fails and leaves the index there as long as has_started_ is
\* true; once the solver has backtracked above the first call of Next
\* (has_started_ false again), the next call of Next sets the index back to
\* 0 and goes on with the first nested decision.
C26_HaltedUntilRestarted ==
  [][/\ FailedDecisionStep
     /\ (ls.pc = "next" /\ ls.nested_decision_index_ < 0) =>
          IF ls.has_started_
          THEN /\ ls'.result = "fail"
               /\ ls'.nested_decision_index_ < 0
               /\ StatesOf(ls') = StatesOf(ls)
          ELSE /\ ls'.has_started_
               /\ ls'.nested_decision_index_ = 0
               /\ ls'.result \in {"decision", "balancing", "fail"}
     /\ (ls.pc # "next") =>
          ls'.nested_decision_index_ = ls.nested_decision_index_]_vars

\* The search was stopped, the solver backtracked above the local search,
\* and Next hands out the first nested decision again.
C26_Witness ==
  /\ ls.halted
  /\ ls.last = "Next"
  /\ ls.result = "decision"
  /\ ls.returned = 0

\* ------------------------------------------------------------------------
\* IntVarLocalSearchOperator::Start on arbitrary assignments
\* ------------------------------------------------------------------------

\* Largest number of variables of the operator, and of elements of the
\* assignment, in the behaviours that call Start on arbitrary assignments.
MaxStartVars == 2

MaxStartElements == 3

Contains(container, var) == \E k \in DOMAIN container : container[k].var = var

\* Start with its CHECKs: fatal says whether a CHECK stopped the process.
\* The variant stops on any slot that holds another variable.
StartCheckedBySlot(o, container) ==
  IF ~(o.size <= Len(container))
  THEN [fatal |-> TRUE, o |-> o]
  ELSE IF \E i \in 0..(o.size - 1) : container[i + 1].var # i
  THEN [fatal |-> TRUE, o |-> o]
  ELSE [fatal |-> FALSE, o |-> Start(o, container)]

StartChecked(o, container) ==
  IF ~(o.size <= Len(container))
  THEN [fatal |-> TRUE, o |-> o]
  ELSE IF \E i \in 0..(o.size - 1) :
            container[i + 1].var # i /\ ~Contains(container, i)
  THEN [fatal |-> TRUE, o |-> o]
  ELSE [fatal |-> FALSE, o |-> Start(o, container)]

\* Assignments of up to MaxStartElements elements over distinct variables,
\* of which those numbered below the size of the operator are its own.
StartContainers ==
  UNION {{c \in [1..n -> [var : 0..(MaxStartElements - 1),
                          activated : BOOLEAN, value : ValueDomain]] :
            \A j, k \in 1..n : j # k => c[j].var # c[k].var} :
         n \in 0..MaxStartElements}

\* SimpleLNS operators at any position of their fragment cursor.
StartOperators ==
  UNION {{[MakeOperator("SimpleLNS", n, 0, TRUE, 1, FALSE, 1, <<>>)
             EXCEPT !.index = k] : k \in 0..(n - 1)} : n \in 1..MaxStartVars}

InitStart ==
  /\ st \in {[pc |-> "constructed", o |-> o, a |-> <<>>, fatal |-> FALSE] :
               o \in StartOperators}
  /\ cmp = [size |-> 0]
  /\ c_obs = <<>>
  /\ lim = [limit |-> 0]
  /\ l_obs = <<>>
  /\ drv = [pc |-> "none"]
  /\ ls = [pc |-> "none"]
  /\ pe = [pc |-> "none"]
  /\ tl = [pc |-> "none"]
  /\ lk = [pc |-> "none"]
  /\ sg = [pc |-> "idle"]
  /\ csr = [pc |-> "idle"]
  /\ nn = [pc |-> "idle"]
  /\ ps = [pc |-> "idle"]
  /\ OperatorIdle
  /\ FilterIdle

StStart ==
  /\ ~st.fatal
  /\ \E a \in StartContainers :
       \E r \in {StartChecked(st.o, a)} :
         st' = [pc |-> "started", o |-> r.o, a |-> a, fatal |-> r.fatal]
  /\ UNCHANGED <<cmp, c_obs, lim, l_obs, drv, ls, pe, tl, lk, sg, csr, nn, ps, opvars, fltvars>>

NextStart == StStart

SpecStart == InitStart /\ [][NextStart]_vars

\* The element of the assignment Start reads for variable i.
ElementOfVar(container, i) == CHOOSE e \in Range(container) : e.var = i

\* What Start leaves in the operator from the elements `read`.
CopiedFrom(o, read) ==
  \A i \in 0..(o.size - 1) :
    /\ o.values[i] = read[i].value /\ o.old_values[i] = read[i].value
    /\ o.activated[i] = read[i].activated
    /\ o.was_activated[i] = read[i].activated

MaxEditNexts == 4

MaxEditVars == 4

\* The staged next values end at a path end within number_of_nexts steps.
RECURSIVE StagedReachesEnd(_, _, _)
StagedReachesEnd(o, node, steps) ==
  IF IsPathEnd(o, node) THEN TRUE
  ELSE IF steps > o.number_of_nexts THEN FALSE
  ELSE StagedReachesEnd(o, Next(o, node), steps + 1)

\* The staged next values form a disjoint union of simple paths and
\* self-loops: no node has two predecessors and every node that is not a
\* self-loop leads to a path end.
IsRouteVector(o) ==
  LET nodes == 0..(o.number_of_nexts - 1)
  IN /\ \A i \in nodes : Next(o, i) \in 0..(2 * o.number_of_nexts - 1)
     /\ \A i, j \in nodes : i # j => Next(o, i) # Next(o, j)
     /\ \A i \in nodes : Next(o, i) = i \/ StagedReachesEnd(o, i, 0)

\* One call of an edit primitive on the staged state o with outcome r.
EditCall(name, o, r) ==
  [name |-> name, closed_before |-> IsRouteVector(o), ok |-> r.ok,
   closed_after |-> IsRouteVector(r.o)]

\* The calls of a first primitive with outcome m1 on o and, when it
\* succeeded (operator &&), of a second one with outcome m2.
EditCallsOfConjunction(name1, o, m1, name2, m2) ==
  IF ~m1.ok THEN <<EditCall(name1, o, m1)>>
  ELSE <<EditCall(name1, o, m1), EditCall(name2, m1.o, m2)>>

\* The primitive calls each MakeNeighbor makes on the operator state o.
TwoOptEditCalls(o) ==
  IF o.last_base # BaseNode(o, 0) \/ o.last = 0 - 1
  THEN LET o1 == RevertChanges(o, FALSE)
       IN IF IsPathEnd(o1, BaseNode(o1, 0)) THEN <<>>
          ELSE LET o2 == [o1 EXCEPT !.last_base = BaseNode(o1, 0),
                                    !.last = Next(o1, BaseNode(o1, 0))]
               IN <<EditCall("ReverseChain", o2,
                             ReverseChain(o2, BaseNode(o2, 0), BaseNode(o2, 1)))>>
  ELSE <<EditCall("MoveChain", o,
                  MoveChain(o, o.last, Next(o, o.last), BaseNode(o, 0)))>>

RelocateEditCalls(o) ==
  LET before_chain == BaseNode(o, 0)
      chain_end == RelocateChainEnd(o, before_chain, 0)
  IN IF chain_end = 0 - 1 THEN <<>>
     ELSE <<EditCall("MoveChain", o,
                     MoveChain(o, before_chain, chain_end, BaseNode(o, 1)))>>

ExchangeEditCalls(o) ==
  LET prev_node0 == BaseNode(o, 0)
      prev_node1 == BaseNode(o, 1)
  IN IF IsPathEnd(o, prev_node0) \/ IsPathEnd(o, prev_node1) THEN <<>>
     ELSE LET node0 == Next(o, prev_node0)
              node1 == Next(o, prev_node1)
          IN IF node0 = prev_node1
             THEN <<EditCall("MoveChain", o, MoveChain(o, prev_node1, node1, prev_node0))>>
             ELSE IF node1 = prev_node0
             THEN <<EditCall("MoveChain", o, MoveChain(o, prev_node0, node0, prev_node1))>>
             ELSE LET m1 == MoveChain(o, prev_node0, node0, prev_node1)
                  IN EditCallsOfConjunction(
                       "MoveChain", o, m1, "MoveChain",
                       MoveChain(m1.o, node0, Next(m1.o, node0), prev_node0))

CrossEditCalls(o) ==
  LET node0 == BaseNode(o, 0)
      start0 == StartNode(o, 0)
      node1 == BaseNode(o, 1)
      start1 == StartNode(o, 1)
  IN IF start1 = start0 THEN <<>>
     ELSE IF ~IsPathEnd(o, node0) /\ ~IsPathEnd(o, node1)
     THEN LET m1 == MoveChain(o, start0, node0, start1)
          IN EditCallsOfConjunction("MoveChain", o, m1, "MoveChain",
                                    MoveChain(m1.o, node0, node1, start0))
     ELSE IF ~IsPathEnd(o, node0)
     THEN <<EditCall("MoveChain", o, MoveChain(o, start0, node0, start1))>>
     ELSE IF ~IsPathEnd(o, node1)
     THEN <<EditCall("MoveChain", o, MoveChain(o, start1, node1, start0))>>
     ELSE <<>>

MakeActiveEditCalls(o) ==
  <<EditCall("MakeActive", o, MakeActive(o, GetInactiveNode(o), BaseNode(o, 0)))>>

MakeInactiveEditCalls(o) ==
  LET base == BaseNode(o, 0)
  IN IF IsPathEnd(o, base) THEN <<>>
     ELSE <<EditCall("MakeChainInactive", o, MakeChainInactive(o, base, Next(o, base)))>>

SwapActiveEditCalls(o) ==
  LET base == BaseNode(o, 0)
  IN IF IsPathEnd(o, base) THEN <<>>
     ELSE LET m1 == MakeChainInactive(o, base, Next(o, base))
          IN EditCallsOfConjunction("MakeChainInactive", o, m1, "MakeActive",
                                    MakeActive(m1.o, GetInactiveNode(m1.o), base))

ExtendedSwapActiveEditCalls(o) ==
  LET base0 == BaseNode(o, 0)
      base1 == BaseNode(o, 1)
  IN IF IsPathEnd(o, base0) \/ IsPathEnd(o, base1) THEN <<>>
     ELSE IF Next(o, base0) = base1 THEN <<>>
     ELSE LET m1 == MakeChainInactive(o, base0, Next(o, base0))
          IN EditCallsOfConjunction("MakeChainInactive", o, m1, "MakeActive",
                                    MakeActive(m1.o, GetInactiveNode(m1.o), base1))

EditCalls(o) ==
  CASE o.kind = "TwoOpt" -> TwoOptEditCalls(o)
    [] o.kind = "Relocate" -> RelocateEditCalls(o)
    [] o.kind = "Exchange" -> ExchangeEditCalls(o)
    [] o.kind = "Cross" -> CrossEditCalls(o)
    [] o.kind = "MakeActive" -> MakeActiveEditCalls(o)
    [] o.kind = "MakeInactive" -> MakeInactiveEditCalls(o)
    [] o.kind = "SwapActive" -> SwapActiveEditCalls(o)
    [] o.kind = "ExtendedSwapActive" -> ExtendedSwapActiveEditCalls(o)

\* The primitive calls of the MakeNeighbor calls that
\* PathOperator::MakeOneNeighbor makes from the operator state o.
RECURSIVE PathOperatorEditCalls(_)
EditCallsAfterMakeNeighbor(o, mn) ==
  EditCalls(o) \o (IF mn.ok THEN <<>> ELSE PathOperatorEditCalls(mn.o))

EditCallsAfterIncrement(ip) ==
  IF ~ip.ok THEN <<>>
  ELSE EditCallsAfterMakeNeighbor(RevertChanges(ip.o, TRUE),
                                  MakeNeighbor(RevertChanges(ip.o, TRUE)))

PathOperatorEditCalls(o) == EditCallsAfterIncrement(IncrementPosition(o))

\* The same for the loop of BaseInactiveNodeToPathOperator::MakeOneNeighbor.
RECURSIVE InactiveNodeEditCalls(_)
InactiveNodeEditCallsAfterMakeOneNeighbor(o, mk) ==
  PathOperatorEditCalls(o)
  \o (IF mk.ok THEN <<>>
      ELSE InactiveNodeEditCalls([ResetPosition(mk.o) EXCEPT !.inactive_node = @ + 1]))

InactiveNodeEditCalls(o) ==
  IF o.inactive_node >= o.size THEN <<>>
  ELSE IF ~IsInactive(o, o.inactive_node)
  THEN InactiveNodeEditCalls([ResetPosition(o) EXCEPT !.inactive_node = @ + 1])
  ELSE InactiveNodeEditCallsAfterMakeOneNeighbor(o, PathOperatorMakeOneNeighbor(o))

\* The primitive calls of one MakeNextNeighbor on the operator o.
MakeNextNeighborEditCalls(o) ==
  IF IsInactiveNodeKind(o.kind) THEN InactiveNodeEditCalls(RevertChanges(o, TRUE))
  ELSE PathOperatorEditCalls(RevertChanges(o, TRUE))

EditKinds ==
  {"TwoOpt", "Relocate", "Exchange", "Cross", "MakeActive", "MakeInactive",
   "SwapActive", "ExtendedSwapActive"}

EditOperators ==
  {MakeOperator(kind, IF ignore THEN n ELSE 2 * n, n, ignore, 1, FALSE, 0, <<>>) :
     kind \in EditKinds \ {"Relocate"}, n \in 2..MaxEditVars, ignore \in BOOLEAN}
  \cup
  {MakeOperator("Relocate", IF ignore THEN n ELSE 2 * n, n, ignore, len, single, 0, <<>>) :
     n \in 2..MaxEditVars, ignore \in BOOLEAN, len \in 1..MaxChainLength,
     single \in BOOLEAN}

InitPrimitive ==
  /\ \E o \in EditOperators :
       \E a \in PathReferences(o) :
         pe = [pc |-> "started", o |-> Start(o, a), calls |-> <<>>, result |-> TRUE,
               nexts |-> 0]
  /\ cmp = [size |-> 0]
  /\ c_obs = <<>>
  /\ lim = [limit |-> 0]
  /\ l_obs = <<>>
  /\ drv = [pc |-> "none"]
  /\ ls = [pc |-> "none"]
  /\ st = [pc |-> "none"]
  /\ tl = [pc |-> "none"]
  /\ lk = [pc |-> "none"]
  /\ sg = [pc |-> "idle"]
  /\ csr = [pc |-> "idle"]
  /\ nn = [pc |-> "idle"]
  /\ ps = [pc |-> "idle"]
  /\ OperatorIdle
  /\ FilterIdle

\* MakeNextNeighbor on the operator, with the primitive calls it made.
PeMakeNextNeighbor ==
  /\ pe.nexts < MaxEditNexts
  /\ \E r \in {MakeNextNeighbor(pe.o, 0)} :
       \E log \in {MakeNextNeighborEditCalls(pe.o)} :
         pe' = [pc |-> "neighbor", o |-> r.o, calls |-> log, result |-> r.ok,
                nexts |-> pe.nexts + 1]
  /\ UNCHANGED <<cmp, c_obs, lim, l_obs, drv, ls, st, tl, lk, sg, csr, nn, ps, opvars, fltvars>>

\* The search accepts the last neighbor and restarts the operator on it.
PeStart ==
  /\ pe.pc = "neighbor"
  /\ pe.result
  /\ pe' = [pc |-> "started", o |-> Start(pe.o, Staged(pe.o)), calls |-> <<>>,
            result |-> TRUE, nexts |-> pe.nexts]
  /\ UNCHANGED <<cmp, c_obs, lim, l_obs, drv, ls, st, tl, lk, sg, csr, nn, ps, opvars, fltvars>>

NextPrimitive == PeMakeNextNeighbor \/ PeStart

SpecPrimitive == InitPrimitive /\ [][NextPrimitive]_vars

RECURSIVE RouteEnd(_, _, _, _)
RouteEnd(o, nexts, node, steps) ==
  IF IsPathEnd(o, node) THEN node
  ELSE IF steps > o.number_of_nexts THEN 0 - 1
  ELSE RouteEnd(o, nexts, nexts[node], steps + 1)

\* The first nodes of the routes of nexts: the nodes nobody leads to.
FirstNodes(o, nexts) ==
  {i \in 0..(o.number_of_nexts - 1) :
     \A j \in 0..(o.number_of_nexts - 1) : nexts[j] # i}

\* C31: every candidate for which MakeNextNeighbor returns true in TwoOpt,
\* Relocate, Exchange, Cross, MakeActive, MakeInactive, SwapActive or
\* ExtendedSwapActive has a staged next-vector that is a set of simple paths
\* plus self-loops, each node on at most one route, and every route keeps
\* its first node and its end node.
C31_CandidateIsRouteSet ==
  (pe.pc = "neighbor" /\ pe.result) =>
    /\ IsRouteVector(pe.o)
    /\ FirstNodes(pe.o, pe.o.values) = FirstNodes(pe.o, pe.o.old_values)
    /\ \A i \in FirstNodes(pe.o, pe.o.old_values) :
         RouteEnd(pe.o, pe.o.values, i, 0) = RouteEnd(pe.o, pe.o.old_values, i, 0)

\* A Cross neighbor on two routes that exchanged their heads.
C31_Witness ==
  /\ pe.pc = "neighbor" /\ pe.result
  /\ pe.o.kind = "Cross"
  /\ Cardinality(FirstNodes(pe.o, pe.o.old_values)) = 2
  /\ \E i \in FirstNodes(pe.o, pe.o.old_values) : pe.o.values[i] # pe.o.old_values[i]

\* ------------------------------------------------------------------------
\* TSPLns
\* ------------------------------------------------------------------------

MaxTspNexts == 4

MaxTspSize == 3

MaxTspRetries == 2

\* The nodes of the route of the base node, from its start to the node
\* before the path end (the first for loop of TSPLns::MakeNeighbor).
RECURSIVE TSPLnsNodes(_, _, _)
TSPLnsNodes(o, node, steps) ==
  IF IsPathEnd(o, node) \/ steps > o.number_of_nexts THEN <<>>
  ELSE <<node>> \o TSPLnsNodes(o, Next(o, node), steps + 1)

\* TSPLns::MakeNeighbor returns false before drawing anything.
TSPLnsRefusesEarly(o) ==
  \/ IsPathEnd(o, BaseNode(o, 0))
  \/ Len(TSPLnsNodes(o, StartNode(o, 0), 0)) <= o.tsp_size

\* The sets of break nodes the random draws can end with: tsp_size nodes
\* of the route, the base node among them.
BreakSets(o) ==
  LET nodes == TSPLnsNodes(o, StartNode(o, 0), 0)
  IN {b \in SUBSET {nodes[k] : k \in DOMAIN nodes} :
        BaseNode(o, 0) \in b /\ Cardinality(b) = o.tsp_size}

\* The tours the Hamiltonian path solver can return for some evaluator: they
\* start and end at 0 and visit every meta-node once.
TravelingSalesmanPaths(size) ==
  {path \in [0..size -> 0..(size - 1)] :
     /\ path[0] = 0 /\ path[size] = 0
     /\ {path[i] : i \in 0..(size - 1)} = 0..(size - 1)}

\* The for loop that injects the tour, from i on.
RECURSIVE TSPLnsInject(_, _, _, _, _)
TSPLnsInject(o, breaks, path, node_path, i) ==
  IF i >= o.tsp_size - 1 THEN o
  ELSE TSPLnsInject(SetNext(o, breaks[path[i] + 1],
                            OldNext(o, breaks[path[i + 1]]), node_path),
                    breaks, path, node_path, i + 1)

\* TSPLns::MakeNeighbor with the break nodes drawn and the tour returned by
\* the solver.
TSPLnsMakeNeighbor(o, breaks_set, path) ==
  IF TSPLnsRefusesEarly(o) THEN [ok |-> FALSE, o |-> o]
  ELSE LET nodes == TSPLnsNodes(o, StartNode(o, 0), 0)
           breaks == SelectSeq(nodes, LAMBDA node : node \in breaks_set)
           node_path == Path(o, StartNode(o, 0))
           nochange == \A i \in 0..(o.tsp_size - 1) : path[i] = i
       IN IF nochange THEN [ok |-> FALSE, o |-> o]
          ELSE LET o1 == TSPLnsInject(o, breaks, path, node_path, 0)
               IN [ok |-> TRUE,
                   o |-> SetNext(o1, breaks[path[o.tsp_size - 1] + 1],
                                 OldNext(o1, breaks[o.tsp_size]), node_path)]

TSPLnsOperators ==
  {[MakeOperator("TSPLns", IF ignore THEN n ELSE 2 * n, n, ignore, 1, FALSE, 0, <<>>)
      EXCEPT !.tsp_size = size] :
     n \in 2..MaxTspNexts, ignore \in BOOLEAN, size \in 1..MaxTspSize}

InitTspLns ==
  /\ \E o \in TSPLnsOperators :
       \E a \in PathReferences(o) :
         tl = [pc |-> "started", o |-> Start(o, a), retries |-> 0]
  /\ cmp = [size |-> 0]
  /\ c_obs = <<>>
  /\ lim = [limit |-> 0]
  /\ l_obs = <<>>
  /\ drv = [pc |-> "none"]
  /\ ls = [pc |-> "none"]
  /\ st = [pc |-> "none"]
  /\ pe = [pc |-> "none"]
  /\ lk = [pc |-> "none"]
  /\ sg = [pc |-> "idle"]
  /\ csr = [pc |-> "idle"]
  /\ nn = [pc |-> "idle"]
  /\ ps = [pc |-> "idle"]
  /\ OperatorIdle
  /\ FilterIdle

\* MakeNextNeighbor reverts the staged changes and enters the retry loop
\* of TSPLns::MakeOneNeighbor.
TlMakeNextNeighbor ==
  /\ tl.pc \in {"started", "returned"}
  /\ tl' = [pc |-> "looping", o |-> RevertChanges(tl.o, TRUE), retries |-> 0]
  /\ UNCHANGED <<cmp, c_obs, lim, l_obs, drv, ls, st, pe, lk, sg, csr, nn, ps, opvars, fltvars>>

\* One step of the loop of PathOperator::MakeOneNeighbor inside the retry
\* loop: IncrementPosition returns true and MakeNeighbor is called.
TlMakeNeighbor ==
  /\ tl.pc = "looping"
  /\ \E ip \in {IncrementPosition(tl.o)} :
       /\ ip.ok
       /\ \E o1 \in {RevertChanges(ip.o, TRUE)} :
            IF TSPLnsRefusesEarly(o1)
            THEN tl' = [tl EXCEPT !.o = o1]
            ELSE \E breaks_set \in BreakSets(o1) :
                   \E path \in TravelingSalesmanPaths(o1.tsp_size) :
                     \E mn \in {TSPLnsMakeNeighbor(o1, breaks_set, path)} :
                       tl' = [tl EXCEPT !.o = mn.o,
                                        !.pc = IF mn.ok THEN "returned" ELSE "looping"]
  /\ UNCHANGED <<cmp, c_obs, lim, l_obs, drv, ls, st, pe, lk, sg, csr, nn, ps, opvars, fltvars>>

\* IncrementPosition returns false: PathOperator::MakeOneNeighbor returns
\* false and the retry loop calls it again.
TlRetry ==
  /\ tl.pc = "looping"
  /\ \E ip \in {IncrementPosition(tl.o)} :
       /\ ~ip.ok
       /\ tl' = [tl EXCEPT !.o = ip.o,
                           !.retries = IF @ < MaxTspRetries THEN @ + 1 ELSE @]
  /\ UNCHANGED <<cmp, c_obs, lim, l_obs, drv, ls, st, pe, lk, sg, csr, nn, ps, opvars, fltvars>>

\* The search accepts the neighbor and restarts the operator on it.
TlStart ==
  /\ tl.pc = "returned"
  /\ tl' = [pc |-> "started", o |-> Start(tl.o, Staged(tl.o)), retries |-> 0]
  /\ UNCHANGED <<cmp, c_obs, lim, l_obs, drv, ls, st, pe, lk, sg, csr, nn, ps, opvars, fltvars>>

NextTspLns == TlMakeNextNeighbor \/ TlMakeNeighbor \/ TlRetry \/ TlStart

SpecTspLns == InitTspLns /\ [][NextTspLns]_vars

\* The body of MakeOneNeighbor keeps running once entered.
SpecTspLnsFair == SpecTspLns /\ WF_vars(TlMakeNeighbor \/ TlRetry)

\* C29: TSPLns::MakeOneNeighbor terminates on every valid reference: once
\* entered, its retry loop ends.
C29_MakeOneNeighborTerminates == (tl.pc = "looping") ~> (tl.pc = "returned")

\* ------------------------------------------------------------------------
\* LinKernighan: the gain of the neighbors it returns
\* ------------------------------------------------------------------------

MaxLkNexts == 5

MaxPosition == 2

MaxLkCalls == 3

\* Symmetric evaluators over the nodes 0..last: the distance of the nodes
\* placed on a line.
LineEvaluators(last) ==
  {[a \in (0..last) \X (0..last) |->
      IF pos[a[1]] >= pos[a[2]] THEN pos[a[1]] - pos[a[2]]
      ELSE pos[a[2]] - pos[a[1]]] :
     pos \in [0..last -> 0..MaxPosition]}

\* Models of n nodes and one or two routes whose next variables have at
\* most kNeighbors values.
LkModels ==
  {m \in (3..MaxLkNexts) \X (1..2) : m[1] + m[2] <= kNeighbors}

LinKernighanOperators ==
  UNION {{[MakeOperator("LinKernighan", m[1], m[1], TRUE, 1, FALSE, 0, <<>>)
             EXCEPT !.evaluator = evaluator, !.topt = topt] :
            evaluator \in LineEvaluators(m[1] + m[2] - 1), topt \in BOOLEAN} :
         m \in LkModels}

\* The references whose routes end at the path ends the model has.
LkReferences(o) ==
  {a \in PathReferences(o) :
     \A s \in 1..o.number_of_nexts : a[s].value < NextDomainSize(o)}

\* Cost of the reference arcs the staged candidate removes minus cost of
\* the arcs it adds, over the next variables i..number_of_nexts-1.
RECURSIVE GlobalGainFrom(_, _)
GlobalGainFrom(o, i) ==
  IF i >= o.number_of_nexts THEN 0
  ELSE (IF Next(o, i) # OldNext(o, i)
        THEN Run(o, i, OldNext(o, i), 0) - Run(o, i, Next(o, i), 0)
        ELSE 0) + GlobalGainFrom(o, i + 1)

GlobalGain(o) == GlobalGainFrom(o, 0)

InitLinKernighan ==
  /\ \E o \in LinKernighanOperators :
       \E a \in LkReferences(o) :
         lk = [pc |-> "started", o |-> Start(o, a), result |-> FALSE, nexts |-> 0]
  /\ cmp = [size |-> 0]
  /\ c_obs = <<>>
  /\ lim = [limit |-> 0]
  /\ l_obs = <<>>
  /\ drv = [pc |-> "none"]
  /\ ls = [pc |-> "none"]
  /\ st = [pc |-> "none"]
  /\ pe = [pc |-> "none"]
  /\ tl = [pc |-> "none"]
  /\ sg = [pc |-> "idle"]
  /\ csr = [pc |-> "idle"]
  /\ nn = [pc |-> "idle"]
  /\ ps = [pc |-> "idle"]
  /\ OperatorIdle
  /\ FilterIdle

LkMakeNextNeighbor ==
  /\ lk.nexts < MaxLkCalls
  /\ \E r \in {MakeNextNeighbor(lk.o, 0)} :
       lk' = [pc |-> "neighbor", o |-> r.o, result |-> r.ok, nexts |-> lk.nexts + 1]
  /\ UNCHANGED <<cmp, c_obs, lim, l_obs, drv, ls, st, pe, tl, sg, csr, nn, ps, opvars, fltvars>>

\* The search accepts the neighbor and restarts the operator on it.
LkStart ==
  /\ lk.pc = "neighbor"
  /\ lk.result
  /\ lk' = [pc |-> "started", o |-> Start(lk.o, Staged(lk.o)), result |-> FALSE,
            nexts |-> lk.nexts]
  /\ UNCHANGED <<cmp, c_obs, lim, l_obs, drv, ls, st, pe, tl, sg, csr, nn, ps, opvars, fltvars>>

NextLinKernighan == LkMakeNextNeighbor \/ LkStart

SpecLinKernighan == InitLinKernighan /\ [][NextLinKernighan]_vars

\* C30: whenever LinKernighan::MakeNeighbor returns true, the cost of the
\* reference arcs the staged candidate removes minus the cost of the arcs
\* it adds is strictly positive.
C30_ReturnedNeighborHasPositiveGain ==
  (lk.pc = "neighbor" /\ lk.result) => GlobalGain(lk.o) > 0

\* ------------------------------------------------------------------------
\* Staging of changes: Start, the mutators, MakeNextNeighbor and
\* RevertChanges called in any order
\* ------------------------------------------------------------------------

MaxStagingVars == 2

MaxStagingNexts == 3

\* TwoOpt (the incremental operator) on routes of MaxStagingNexts nodes and
\* the value operators on MaxStagingVars variables.
StagingOperators ==
  {MakeOperator("TwoOpt", MaxStagingNexts, MaxStagingNexts, TRUE, 1, FALSE, 0, <<>>)}
  \cup
  {MakeOperator("RandomLNS", MaxStagingVars, 0, TRUE, 1, FALSE, k, <<>>) :
     k \in 1..MaxStagingVars}
  \cup
  {MakeOperator("IncrementValue", MaxStagingVars, 0, TRUE, 1, FALSE, 0, <<>>)}

\* The fields of the operator that hold the staged candidate.
StagingState(o) ==
  [values |-> o.values, activated |-> o.activated, changes |-> o.changes,
   has_changed |-> o.has_changed, cleared |-> o.cleared]

NoIndex == 0 - 1

StagingCall(name, index, incremental, rand) ==
  [name |-> name, index |-> index, incremental |-> incremental, rand |-> rand]

InitStaging ==
  /\ \E o \in StagingOperators :
       \E a \in References(o) :
         \E o1 \in {Start(o, a)} :
           sg = [pc |-> "started", o |-> o1, R |-> a, after_start |-> StagingState(o1),
                 before |-> o, call |-> StagingCall("Start", NoIndex, FALSE, <<>>),
                 ok |-> TRUE, delta |-> <<>>, deltadelta |-> <<>>]
  /\ cmp = [size |-> 0]
  /\ c_obs = <<>>
  /\ lim = [limit |-> 0]
  /\ l_obs = <<>>
  /\ drv = [pc |-> "none"]
  /\ ls = [pc |-> "none"]
  /\ st = [pc |-> "none"]
  /\ pe = [pc |-> "none"]
  /\ tl = [pc |-> "none"]
  /\ lk = [pc |-> "none"]
  /\ csr = [pc |-> "idle"]
  /\ nn = [pc |-> "idle"]
  /\ ps = [pc |-> "idle"]
  /\ OperatorIdle
  /\ FilterIdle

\* Assignments the operator is started on again: the same reference, the
\* neighbor it has just returned (path operators), any reference (value
\* operators).
StagingStartChoices ==
  IF IsPathKind(sg.o.kind)
  THEN {sg.R} \cup (IF sg.call.name = "MakeNextNeighbor" /\ sg.ok
                    THEN {Staged(sg.o)} ELSE {})
  ELSE References(sg.o)

SgStart ==
  /\ \E a \in StagingStartChoices :
       \E o1 \in {Start(sg.o, a)} :
         sg' = [sg EXCEPT !.o = o1, !.R = a, !.after_start = StagingState(o1),
                          !.before = sg.o,
                          !.call = StagingCall("Start", NoIndex, FALSE, <<>>),
                          !.ok = TRUE, !.delta = <<>>, !.deltadelta = <<>>]
  /\ UNCHANGED <<cmp, c_obs, lim, l_obs, drv, ls, st, pe, tl, lk, csr, nn, ps, opvars, fltvars>>

\* The mutators are called by the MakeOneNeighbor of an operator; the path
\* operators call them through their edit primitives only.
SgSetValue ==
  /\ ~IsPathKind(sg.o.kind)
  /\ \E index \in 0..(sg.o.size - 1) :
       \E value \in ValueDomain :
         sg' = [sg EXCEPT !.o = SetValue(sg.o, index, value), !.before = sg.o,
                          !.call = StagingCall("SetValue", index, FALSE, <<>>),
                          !.ok = TRUE, !.delta = <<>>, !.deltadelta = <<>>]
  /\ UNCHANGED <<cmp, c_obs, lim, l_obs, drv, ls, st, pe, tl, lk, csr, nn, ps, opvars, fltvars>>

SgActivate ==
  /\ ~IsPathKind(sg.o.kind)
  /\ \E index \in 0..(sg.o.size - 1) :
       sg' = [sg EXCEPT !.o = Activate(sg.o, index), !.before = sg.o,
                        !.call = StagingCall("Activate", index, FALSE, <<>>),
                        !.ok = TRUE, !.delta = <<>>, !.deltadelta = <<>>]
  /\ UNCHANGED <<cmp, c_obs, lim, l_obs, drv, ls, st, pe, tl, lk, csr, nn, ps, opvars, fltvars>>

SgDeactivate ==
  /\ ~IsPathKind(sg.o.kind)
  /\ \E index \in 0..(sg.o.size - 1) :
       sg' = [sg EXCEPT !.o = Deactivate(sg.o, index), !.before = sg.o,
                        !.call = StagingCall("Deactivate", index, FALSE, <<>>),
                        !.ok = TRUE, !.delta = <<>>, !.deltadelta = <<>>]
  /\ UNCHANGED <<cmp, c_obs, lim, l_obs, drv, ls, st, pe, tl, lk, csr, nn, ps, opvars, fltvars>>

SgRevertChanges ==
  /\ \E incremental \in BOOLEAN :
       sg' = [sg EXCEPT !.o = RevertChanges(sg.o, incremental), !.before = sg.o,
                        !.call = StagingCall("RevertChanges", NoIndex, incremental, <<>>),
                        !.ok = TRUE, !.delta = <<>>, !.deltadelta = <<>>]
  /\ UNCHANGED <<cmp, c_obs, lim, l_obs, drv, ls, st, pe, tl, lk, csr, nn, ps, opvars, fltvars>>

\* MakeNextNeighbor called with empty delta and deltadelta.
SgMakeNextNeighbor ==
  /\ \E rand \in RandChoices(sg.o) :
       \E r \in {MakeNextNeighbor(sg.o, rand)} :
         sg' = [sg EXCEPT !.o = r.o, !.before = sg.o,
                          !.call = StagingCall("MakeNextNeighbor", NoIndex, FALSE, rand),
                          !.ok = r.ok, !.delta = r.delta, !.deltadelta = r.deltadelta]
  /\ UNCHANGED <<cmp, c_obs, lim, l_obs, drv, ls, st, pe, tl, lk, csr, nn, ps, opvars, fltvars>>

NextStaging ==
  \/ SgStart
  \/ SgSetValue
  \/ SgActivate
  \/ SgDeactivate
  \/ SgRevertChanges
  \/ SgMakeNextNeighbor

SpecStaging == InitStaging /\ [][NextStaging]_vars

\* C32: in every operator state has_changed[i] holds exactly for the
\* indices i of the change list, and a mutator called on index i leaves i
\* marked in has_changed and in has_delta_changed.
C32_ChangeMarksMatchChangeList ==
  /\ \A i \in 0..(sg.o.size - 1) : sg.o.has_changed[i] <=> i \in Range(sg.o.changes)
  /\ sg.call.name \in {"SetValue", "Activate", "Deactivate"} =>
       /\ sg.o.has_changed[sg.call.index]
       /\ sg.o.has_delta_changed[sg.call.index]

C32_Witness ==
  /\ sg.call.name = "Activate"
  /\ sg.before.has_changed[sg.call.index]
  /\ ~sg.before.activated[sg.call.index]
  /\ Len(sg.o.changes) = 2

\* The values and activations of the reference the operator was started on.
ReferenceValues == [i \in 0..(sg.o.size - 1) |-> StartElement(sg.R, i).value]

ReferenceActivated == [i \in 0..(sg.o.size - 1) |-> StartElement(sg.R, i).activated]

AfterFullRevert == sg.call.name = "RevertChanges" /\ ~sg.call.incremental

\* C33 as stated: RevertChanges(false) puts values, activations, change
\* list, change marks and cleared flag back to what they were immediately
\* after the last Start.
C33_RevertRestoresStateAfterStart ==
  AfterFullRevert => StagingState(sg.o) = sg.after_start

\* C33: after RevertChanges(false) values and activations are those of the
\* reference of the last Start, the change list is empty, no index is
\* marked in has_changed and cleared is true; this is the state right after
\* that Start when the Start was made with an empty change list.
C33_RevertRestoresReference ==
  AfterFullRevert =>
    /\ sg.o.values = sg.o.old_values
    /\ sg.o.values = ReferenceValues
    /\ sg.o.activated = sg.o.was_activated
    /\ sg.o.activated = ReferenceActivated
    /\ sg.o.changes = <<>>
    /\ sg.o.has_changed = AllFalse(sg.o.size)
    /\ sg.o.cleared
    /\ (sg.after_start.changes = <<>> /\ sg.after_start.cleared) =>
         StagingState(sg.o) = sg.after_start

C33_Witness ==
  /\ AfterFullRevert
  /\ Len(sg.before.changes) = 2
  /\ sg.before.values # sg.before.old_values
  /\ sg.after_start.changes # <<>>

\* C34 as stated: RevertChanges(true) on an incremental operator resets
\* has_delta_changed and leaves values, activations, change list, change
\* marks and cleared as they were; any other RevertChanges restores values
\* and activations from the reference and empties the change list.
C34_IncrementalRevertKeepsCleared ==
  sg.call.name = "RevertChanges" =>
    IF sg.call.incremental /\ IsIncremental(sg.before)
    THEN /\ sg.o.has_delta_changed = AllFalse(sg.o.size)
         /\ StagingState(sg.o) = StagingState(sg.before)
    ELSE /\ sg.o.values = sg.o.old_values
         /\ sg.o.activated = sg.o.was_activated
         /\ sg.o.changes = <<>>

\* C34: RevertChanges(true) on an incremental operator resets
\* has_delta_changed, sets cleared to false and leaves values, activations,
\* change list and change marks as they were; any other RevertChanges
\* restores values and activations from the reference, empties the change
\* list and sets cleared to true.
C34_IncrementalRevertResetsCleared ==
  sg.call.name = "RevertChanges" =>
    IF sg.call.incremental /\ IsIncremental(sg.before)
    THEN /\ sg.o.has_delta_changed = AllFalse(sg.o.size)
         /\ ~sg.o.cleared
         /\ StagingState(sg.o) = [StagingState(sg.before) EXCEPT !.cleared = FALSE]
    ELSE /\ sg.o.values = sg.o.old_values
         /\ sg.o.activated = sg.o.was_activated
         /\ sg.o.changes = <<>>
         /\ sg.o.cleared

C34_Witness ==
  /\ sg.call.name = "RevertChanges"
  /\ sg.call.incremental
  /\ IsIncremental(sg.before)
  /\ sg.before.cleared
  /\ sg.before.values # sg.before.old_values
  /\ sg.o.values = sg.before.values

\* Every variable occurs at most once in the container d.
EachVariableOnce(d) == \A j, k \in DOMAIN d : d[j].var = d[k].var => j = k

\* C35: a MakeNextNeighbor called with empty delta and deltadelta leaves
\* every variable at most once in delta and at most once in deltadelta.
C35_DeltaHoldsEachVariableOnce ==
  sg.call.name = "MakeNextNeighbor" =>
    /\ EachVariableOnce(sg.delta)
    /\ EachVariableOnce(sg.deltadelta)

C35_Witness ==
  /\ sg.call.name = "MakeNextNeighbor"
  /\ sg.ok
  /\ sg.o.kind = "RandomLNS"
  /\ Len(sg.call.rand) = 2
  /\ sg.call.rand[1] = sg.call.rand[2]
  /\ Len(sg.delta) = 1
  /\ sg.before.changes # <<>>

\* ------------------------------------------------------------------------
\* Cursor iteration of the path operators: IncrementPosition called until
\* it returns false, the operator being started again in between
\* ------------------------------------------------------------------------

MaxCursorNexts == 3

MaxCursorSinks == 3

MaxEpisodes == 2

\* One operator per number of base nodes and per rule on the path of the
\* second base node.
CursorOperators ==
  {MakeOperator(kind, n, n, TRUE, 1, FALSE, 0, <<>>) :
     kind \in {"MakeInactive", "TwoOpt", "Exchange", "Cross", "Relocate"},
     n \in 1..MaxCursorNexts}
  \cup
  {MakeOperator("Relocate", n, n, TRUE, 1, TRUE, 0, <<>>) : n \in 1..MaxCursorNexts}

\* The node the route through node ends at, following the next values f
\* (n itself stands for a node that is on no route).
RECURSIVE SinkOf(_, _, _, _)
SinkOf(f, n, node, steps) ==
  IF node >= n THEN node
  ELSE IF steps > n THEN n - 1 - n
  ELSE SinkOf(f, n, f[node], steps + 1)

\* The route sets over n next variables: simple paths ending at one of the
\* nodes n..n+MaxCursorSinks-1, self-loops for the inactive nodes, at least
\* one route.
RouteSets(n) ==
  {[s \in 1..n |-> ValueElement(s - 1, f[s - 1])] :
     f \in {g \in [0..(n - 1) -> 0..(n + MaxCursorSinks - 1)] :
              /\ \A i, j \in 0..(n - 1) : i # j => g[i] # g[j]
              /\ \A i \in 0..(n - 1) : g[i] = i \/ SinkOf(g, n, i, 0) >= n
              /\ \E i \in 0..(n - 1) : g[i] # i}}

AllRouteSets == [n \in 1..MaxCursorNexts |-> RouteSets(n)]

\* The number of positions the cursors of o can take: a node or a sink
\* and a path for each, and just_started_.
CursorPositions(o) ==
  LET per_cursor == (o.number_of_nexts + MaxCursorSinks) * o.number_of_nexts
  IN 2 * (IF NumberOfBaseNodes(o.kind) = 1 THEN per_cursor
          ELSE per_cursor * per_cursor)

InitCursor ==
  /\ \E o \in CursorOperators :
       \E a \in AllRouteSets[o.number_of_nexts] :
         csr = [pc |-> "iterating", o |-> Start(o, a), episodes |-> 1, calls |-> 0,
                first |-> FALSE, ok |-> TRUE, found |-> FALSE, kept |-> TRUE]
  /\ cmp = [size |-> 0]
  /\ c_obs = <<>>
  /\ lim = [limit |-> 0]
  /\ l_obs = <<>>
  /\ drv = [pc |-> "none"]
  /\ ls = [pc |-> "none"]
  /\ st = [pc |-> "none"]
  /\ pe = [pc |-> "none"]
  /\ tl = [pc |-> "none"]
  /\ lk = [pc |-> "none"]
  /\ sg = [pc |-> "idle"]
  /\ nn = [pc |-> "idle"]
  /\ ps = [pc |-> "idle"]
  /\ OperatorIdle
  /\ FilterIdle

\* The route set b has the first nodes of the reference of o, and each
\* route ends at the node it ends at in that reference.
KeepsRoutes(o, b) ==
  /\ RouteStarts(b, o.number_of_nexts, 0) = o.path_starts
  /\ \A k \in DOMAIN o.path_starts :
       RouteEnd(o, [i \in 0..(o.number_of_nexts - 1) |-> b[i + 1].value],
                o.path_starts[k], 0)
       = RouteEnd(o, o.old_values, o.path_starts[k], 0)

\* One iteration of the loop of MakeOneNeighbor: IncrementPosition and,
\* when it returns true, RevertChanges(true) and MakeNeighbor.  A
\* MakeNeighbor that returns true ends the MakeNextNeighbor call; the next
\* call goes on from there.
CsrIterationAfterIncrement(r) ==
  IF r.ok
  THEN MakeNeighbor(RevertChanges(r.o, TRUE))
  ELSE [ok |-> FALSE, o |-> r.o]

\* A cursor iteration that does not end within CursorPositions calls has
\* come back to a position it has been at and repeats for ever.
CsrIncrementPosition ==
  /\ csr.pc = "iterating"
  /\ csr.calls <= CursorPositions(csr.o)
  /\ \E r \in {IncrementPosition(RevertChanges(csr.o, TRUE))} :
       \E mn \in {CsrIterationAfterIncrement(r)} :
         csr' = [csr EXCEPT !.pc = IF r.ok THEN "iterating" ELSE "exhausted",
                            !.o = mn.o, !.calls = @ + 1,
                            !.first = csr.o.just_started, !.ok = r.ok,
                            !.found = mn.ok]
  /\ UNCHANGED <<cmp, c_obs, lim, l_obs, drv, ls, st, pe, tl, lk, sg, nn, ps, opvars, fltvars>>

\* The operator is started again, after it has returned a neighbor or
\* false, on a route set with the same first nodes (the neighbor, or a
\* solution found from a neighbor of another operator); the cursors stay
\* where the previous episode left them.
CsrStart ==
  /\ csr.episodes < MaxEpisodes
  /\ csr.pc = "exhausted" \/ csr.found
  /\ \E a \in {b \in AllRouteSets[csr.o.number_of_nexts] :
                 RouteStarts(b, csr.o.number_of_nexts, 0) = csr.o.path_starts} :
       csr' = [pc |-> "iterating", o |-> Start(csr.o, a),
               episodes |-> csr.episodes + 1, calls |-> 0, first |-> FALSE,
               ok |-> TRUE, found |-> FALSE,
               kept |-> csr.kept /\ KeepsRoutes(csr.o, a)]
  /\ UNCHANGED <<cmp, c_obs, lim, l_obs, drv, ls, st, pe, tl, lk, sg, nn, ps, opvars, fltvars>>

NextCursor == CsrIncrementPosition \/ CsrStart

SpecCursor == InitCursor /\ [][NextCursor]_vars

\* IncrementPosition has returned false exactly when the call was not the
\* first one of the episode and left every cursor at its end node.
CursorFalseMeansBack ==
  csr.calls > 0 =>
    (~csr.ok <=> (~csr.first /\ csr.o.base_nodes = csr.o.end_nodes))

\* C36: in every episode the repeated calls of IncrementPosition come to
\* a call that returns false before the cursors have been at a position
\* twice, and a call returns false exactly when it has moved the cursors
\* and left each of them at the position it had at Start.
C36_CursorIterationTerminates ==
  /\ CursorFalseMeansBack
  /\ csr.calls <= CursorPositions(csr.o)

\* The same when every Start of the behaviour kept each route ending at
\* the node it ended at before.
CursorIterationTerminatesOnKeptRoutes ==
  csr.kept => C36_CursorIterationTerminates

\* ------------------------------------------------------------------------
\* FindOneNeighbor over a pool whose SyncNeeded answers either way: the
\* iterations of one call of Next
\* ------------------------------------------------------------------------

MaxPoolCandidates == 33

MaxPoolNexts == 2

MaxPoolSyncs == 1

\* The opening of an iteration (lines 2810-2815) when SyncNeeded, if it is
\* called, answers sync_needed.
FindOneNeighborPeriodicSyncOfPool(f, sync_needed) ==
  LET counted == [f EXCEPT !.counter = @ + 1, !.log = <<>>,
                           !.mh_vote = FALSE,
                           !.synchronizes = <<>>, !.accepts = <<>>]
  IN IF /\ counted.counter >= cp_local_search_sync_frequency
        /\ sync_needed
     THEN SynchronizeAll([counted EXCEPT !.counter = 0])
     ELSE counted

\* SyncNeeded is called in the iteration that finds f when ++counter
\* reaches the frequency (the right operand of && is evaluated).
SyncNeededIsCalled(f) == f.counter + 1 >= cp_local_search_sync_frequency

\* The number of calls of Start on the operator in a log.
RECURSIVE StartsIn(_, _)
StartsIn(log, k) ==
  IF k > Len(log) THEN 0
  ELSE (IF log[k] = "Start" THEN 1 ELSE 0) + StartsIn(log, k + 1)

\* The number of iterations of the loop an operator of `candidates`
\* neighbors allows when it is restarted once.
IterationsOfOneRestart(f) == 2 * (f.ls_operator_.candidates + 1)

InitPool ==
  /\ drv \in {MakeFindOneNeighbor(n, <<>>) : n \in {1, MaxPoolCandidates}}
  /\ ps = [pc |-> "idle", iteration |-> 0, consulted |-> FALSE, answer |-> FALSE,
           answered |-> FALSE, restarts |-> 0, syncs |-> 0, solved |-> FALSE]
  /\ cmp = [size |-> 0]
  /\ c_obs = <<>>
  /\ lim = [limit |-> 0]
  /\ l_obs = <<>>
  /\ ls = [pc |-> "none"]
  /\ st = [pc |-> "none"]
  /\ pe = [pc |-> "none"]
  /\ tl = [pc |-> "none"]
  /\ lk = [pc |-> "none"]
  /\ sg = [pc |-> "idle"]
  /\ csr = [pc |-> "idle"]
  /\ nn = [pc |-> "idle"]
  /\ OperatorIdle
  /\ FilterIdle

\* A call of Next, up to the loop.
PsNext ==
  /\ drv.pc = "idle"
  /\ drv.nexts < MaxPoolNexts
  /\ \E f \in {FindOneNeighborEnter(drv)} :
       /\ drv' = f
       /\ ps' = [pc |-> "call", iteration |-> 0, consulted |-> FALSE,
                 answer |-> FALSE, answered |-> FALSE,
                 restarts |-> StartsIn(f.log, 1), syncs |-> ps.syncs,
                 solved |-> FALSE]
  /\ UNCHANGED <<cmp, c_obs, lim, l_obs, ls, st, pe, tl, lk, sg, csr, nn, opvars, fltvars>>

\* One iteration of the loop of Next; sync_needed is the answer of the
\* pool (true at most MaxPoolSyncs times in a behaviour), limit_crossed the
\* one of the limit; the parent search refuses deltas of the operator of
\* one neighbor only.
PsIterate ==
  /\ drv.pc = "loop"
  /\ ps.iteration <= IterationsOfOneRestart(drv)
  /\ \E sync_needed \in IF SyncNeededIsCalled(drv) /\ ps.syncs < MaxPoolSyncs
                        THEN BOOLEAN ELSE {FALSE},
        limit_crossed \in BOOLEAN,
        mh_filter \in IF drv.ls_operator_.candidates = 1 THEN BOOLEAN ELSE {TRUE},
        solved \in IF drv.accepted_neighbors_ < MaxAccepted
                   THEN BOOLEAN ELSE {FALSE} :
       \E synced \in {FindOneNeighborPeriodicSyncOfPool(drv, sync_needed)} :
         \E f \in {FindOneNeighborAfterSync(
                     synced, limit_crossed,
                     SubMakeNextNeighbor(synced.ls_operator_),
                     mh_filter, <<>>, FALSE, solved)} :
           /\ drv' = f
           /\ ps' = [pc |-> "call", iteration |-> ps.iteration + 1,
                     consulted |-> SyncNeededIsCalled(drv),
                     answer |-> SyncNeededIsCalled(drv) /\ sync_needed,
                     answered |-> ps.answered
                                  \/ (SyncNeededIsCalled(drv) /\ sync_needed),
                     restarts |-> ps.restarts + StartsIn(f.log, 1),
                     syncs |-> ps.syncs + (IF sync_needed THEN 1 ELSE 0),
                     solved |-> f.operator_result = "true" /\ mh_filter /\ solved]
  /\ UNCHANGED <<cmp, c_obs, lim, l_obs, ls, st, pe, tl, lk, sg, csr, nn, opvars, fltvars>>

NextPool == PsNext \/ PsIterate

SpecPool == InitPool /\ [][NextPool]_vars

\* C37: in the iteration of a call of Next that is the k-th one,
\* SyncNeeded is called exactly when k is a multiple of the frequency, and
\* a true answer makes the iteration take the next solution of the pool,
\* start the operator and synchronise the filters.
C37_PoolIsConsultedEverySixteenthIteration ==
  ps.iteration > 0 =>
    /\ ps.consulted <=> (ps.iteration % cp_local_search_sync_frequency = 0)
    /\ ps.answer =>
         /\ Len(drv.log) >= 4
         /\ SubSeq(drv.log, 1, 4)
              = <<"GetNextSolution", "Init", "Start", "SynchronizeFilters">>

\* What holds of the periodic check: SyncNeeded is called in every
\* iteration from the one that brings the counter to the frequency, the
\* counter going back to 0 at the start of a call and after a true answer
\* only.
PoolIsConsultedOnceCounterReachesFrequency ==
  ps.iteration > 0 =>
    /\ ps.consulted =>
         ps.iteration >= cp_local_search_sync_frequency
    /\ (ps.consulted /\ ~ps.answer /\ drv.pc = "loop") =>
         drv.counter >= cp_local_search_sync_frequency
    /\ ps.answer =>
         /\ Len(drv.log) >= 4
         /\ SubSeq(drv.log, 1, 4)
              = <<"GetNextSolution", "Init", "Start", "SynchronizeFilters">>

\* C39: in a call of Next in which the pool never asks for a
\* synchronisation, the operator is started at most once, the loop makes
\* no more iterations than an operator restarted once allows, the call
\* returns in the iteration whose candidate passes the filters and the
\* nested solve, and it ends in failure in no other way than by the
\* else branch finding no neighbor committed.
C39_NextTerminatesWithAtMostOneRestart ==
  (ps.pc = "call" /\ ~ps.answered) =>
    /\ ps.restarts <= 1
    /\ ps.iteration <= IterationsOfOneRestart(drv)
    /\ ps.solved <=> (drv.pc = "idle" /\ drv.outcome = "neighbor")
    /\ (ps.iteration > 0 /\ ~ps.solved /\ drv.pc = "idle") =>
         /\ drv.outcome = "failure"
         /\ ~drv.neighbor_found_
         /\ drv.operator_result \in {"false", "not called"}

C39_Witness ==
  /\ ps.pc = "call"
  /\ ~ps.answered
  /\ drv.pc = "idle"
  /\ drv.outcome = "failure"
  /\ ps.restarts = 1
  /\ drv.nexts = 2
  /\ ps.iteration > drv.ls_operator_.candidates + 1
  /\ drv.ls_operator_.candidates = MaxPoolCandidates

\* ---------------------------------------------------------------------
\* NearestNeighbors: the per-row lists of the size_ cheapest destinations.
\* ---------------------------------------------------------------------

MaxNnRows == 2

MaxNnDomain == 4

MaxNnSize == 3

MaxNnCost == 2

MaxNnMin == 1

\* Integer division of C++, which truncates towards zero.
CppDiv(a, b) == IF a >= 0 THEN a \div b ELSE 0 - ((0 - a) \div b)

\* The working arrays of ComputeNearest: neighbors and row_data over
\* 0..var_size-1; undefined is set by an access outside the arrays.
InRange(w, i) == i >= 0 /\ i < w.var_size

\* Swap(i, j, neighbors, row).
Swap(w, i, j) ==
  IF ~InRange(w, i) \/ ~InRange(w, j) THEN [w EXCEPT !.undefined = TRUE]
  ELSE [w EXCEPT !.row[i] = w.row[j], !.neighbors[i] = w.neighbors[j],
                 !.row[j] = w.row[i], !.neighbors[j] = w.neighbors[i]]

\* The for loop of Pivot from i on, the pivot being at j.
RECURSIVE PivotLoop(_, _, _, _)
PivotLoop(w, i, j, end) ==
  IF i >= end \/ w.undefined THEN [w |-> w, j |-> j]
  ELSE IF w.row[i] < w.row[j]
       THEN PivotLoop(Swap(Swap(w, j, i), i, j + 1), i + 1, j + 1, end)
       ELSE PivotLoop(w, i + 1, j, end)

\* Pivot(start, end, neighbors, row, &index): the arrays and *index after.
Pivot(w, start, end, index) ==
  LET swapped == Swap(w, start, index)
      looped == PivotLoop(swapped, start + 1, start, end)
  IN [w |-> looped.w, index |-> looped.j]

\* The while loop of ComputeNearest.
RECURSIVE SelectLoop(_, _, _, _)
SelectLoop(w, start, end, size) ==
  IF size <= 0 \/ w.undefined THEN w
  ELSE LET p == Pivot(w, start, end, CppDiv(end - start, 2))
       IN IF p.index - start >= size
          THEN SelectLoop(p.w, start, p.index, size)
          ELSE SelectLoop(p.w, p.index + 1, end, size - (p.index + 1))

\* std::sort of a list of distinct node indices.
RECURSIVE SortedList(_)
SortedList(S) ==
  IF S = {} THEN <<>>
  ELSE LET least == CHOOSE x \in S : \A y \in S : x <= y
       IN <<least>> \o SortedList(S \ {least})

NnMin(a, b) == IF a < b THEN a ELSE b

\* The arrays of ComputeNearest(row) before the selection.
NearestArrays(n, row) ==
  LET var_size == n.var_max - n.var_min + 1
  IN [var_size |-> var_size,
      neighbors |-> [i \in 0..(var_size - 1) |-> i + n.var_min],
      row |-> [i \in 0..(var_size - 1) |-> n.evaluator[row][i + n.var_min]],
      undefined |-> FALSE]

\* The arrays of ComputeNearest(row) after the selection.
SelectedArrays(n, row) ==
  LET w == NearestArrays(n, row)
  IN IF w.var_size > n.size_ THEN SelectLoop(w, 0, w.var_size, n.size_) ELSE w

\* The lists ComputeNearest(row) can leave in neighbors_[row]: the sorted
\* first min(size_, var_size) entries of neighbors, or anything when the
\* selection read or wrote outside the arrays.
ComputeNearest(n, row) ==
  LET w == SelectedArrays(n, row)
      kept == NnMin(n.size_, w.var_size)
  IN IF w.undefined
     THEN {SortedList(S) : S \in SUBSET (n.var_min..n.var_max)}
     ELSE {SortedList({w.neighbors[i] : i \in 0..(kept - 1)})}

\* A NearestNeighbors object over number_of_nexts rows of domain
\* var_min..var_max, as constructed.
MakeNearestNeighbors(evaluator, number_of_nexts, var_min, var_max, size) ==
  [evaluator |-> evaluator, number_of_nexts |-> number_of_nexts,
   var_min |-> var_min, var_max |-> var_max, size_ |-> size,
   initialized_ |-> FALSE,
   neighbors_ |-> [r \in 0..(number_of_nexts - 1) |-> <<>>]]

NnDomains ==
  {d \in (0..MaxNnMin) \X (0..(MaxNnMin + MaxNnDomain - 1)) :
     d[2] >= d[1] /\ d[2] - d[1] + 1 <= MaxNnDomain}

InitNearest ==
  /\ \E rows \in 1..MaxNnRows, d \in NnDomains, size \in 1..MaxNnSize :
       \E evaluator \in [0..(rows - 1) -> [d[1]..d[2] -> 0..MaxNnCost]] :
         nn = [pc |-> "made", read |-> 0 - 1,
               n |-> MakeNearestNeighbors(evaluator, rows, d[1], d[2], size)]
  /\ cmp = [size |-> 0]
  /\ c_obs = <<>>
  /\ lim = [limit |-> 0]
  /\ l_obs = <<>>
  /\ drv = [pc |-> "none"]
  /\ ls = [pc |-> "none"]
  /\ st = [pc |-> "none"]
  /\ pe = [pc |-> "none"]
  /\ tl = [pc |-> "none"]
  /\ lk = [pc |-> "none"]
  /\ sg = [pc |-> "idle"]
  /\ csr = [pc |-> "idle"]
  /\ ps = [pc |-> "idle"]
  /\ OperatorIdle
  /\ FilterIdle

\* NearestNeighbors::Initialize: ComputeNearest of every row, once.
NnInitialize ==
  /\ nn.pc = "made"
  /\ ~nn.n.initialized_
  /\ \E lists \in [0..(nn.n.number_of_nexts - 1) -> UNION {ComputeNearest(nn.n, r) : r \in 0..(nn.n.number_of_nexts - 1)}] :
       /\ \A r \in DOMAIN lists : lists[r] \in ComputeNearest(nn.n, r)
       /\ nn' = [nn EXCEPT !.pc = "initialized",
                           !.n.initialized_ = TRUE,
                           !.n.neighbors_ = lists]
  /\ UNCHANGED <<cmp, c_obs, lim, l_obs, drv, ls, st, pe, tl, lk, sg, csr, ps, opvars, fltvars>>

\* NearestNeighbors::Neighbors(index) of an initialized object.
NnNeighbors ==
  /\ nn.pc = "initialized"
  /\ \E index \in 0..(nn.n.number_of_nexts - 1) :
       nn' = [nn EXCEPT !.read = index]
  /\ UNCHANGED <<cmp, c_obs, lim, l_obs, drv, ls, st, pe, tl, lk, sg, csr, ps, opvars, fltvars>>

NextNearest == NnInitialize \/ NnNeighbors

SpecNearest == InitNearest /\ [][NextNearest]_vars

NnListOf(row) == nn.n.neighbors_[row]

NnMembers(row) == {NnListOf(row)[i] : i \in 1..Len(NnListOf(row))}

\* C38: after Initialize the list of every row holds
\* min(size_, domain size) distinct destinations of the domain, and no
\* destination left out is strictly cheaper for the row than one in the
\* list.
C38_ListHoldsTheCheapestDestinations ==
  nn.pc = "initialized" =>
    \A row \in 0..(nn.n.number_of_nexts - 1) :
      /\ NnMembers(row) \subseteq nn.n.var_min..nn.n.var_max
      /\ Len(NnListOf(row)) = NnMin(nn.n.size_, nn.n.var_max - nn.n.var_min + 1)
      /\ Cardinality(NnMembers(row)) = Len(NnListOf(row))
      /\ \A out \in (nn.n.var_min..nn.n.var_max) \ NnMembers(row) :
           \A in \in NnMembers(row) :
             nn.n.evaluator[row][out] >= nn.n.evaluator[row][in]

\* What holds of the lists: sorted lists of min(size_, domain size)
\* distinct destinations of the domain, which hold a cheapest destination
\* of the row, and the cheapest ones when size_ is at most 2 or the domain
\* no larger than size_; the selection stays inside its arrays.
ListHoldsDistinctDestinationsAndACheapest ==
  nn.pc = "initialized" =>
    \A row \in 0..(nn.n.number_of_nexts - 1) :
      /\ ~SelectedArrays(nn.n, row).undefined
      /\ NnMembers(row) \subseteq nn.n.var_min..nn.n.var_max
      /\ Len(NnListOf(row)) = NnMin(nn.n.size_, nn.n.var_max - nn.n.var_min + 1)
      /\ \A i \in 1..(Len(NnListOf(row)) - 1) : NnListOf(row)[i] < NnListOf(row)[i + 1]
      /\ \E in \in NnMembers(row) :
           \A out \in nn.n.var_min..nn.n.var_max :
             nn.n.evaluator[row][out] >= nn.n.evaluator[row][in]
      /\ (nn.n.size_ <= 2 \/ nn.n.var_max - nn.n.var_min + 1 <= nn.n.size_) =>
           \A out \in (nn.n.var_min..nn.n.var_max) \ NnMembers(row) :
             \A in \in NnMembers(row) :
               nn.n.evaluator[row][out] >= nn.n.evaluator[row][in]

====
